---- MODULE Spec2Model ----
(***************************************************************************)
(* A model of the SudokuSolver core: the Board value type, the            *)
(* backtracking engine (constraint propagation + MRV) and the Dancing     *)
(* Links engine (exact cover, Algorithm X).                               *)
(*                                                                         *)
(* Conventions.  Rows, columns and box indices are 0-based as in the      *)
(* source.  A Grid (std::vector<std::vector<Cell>>) is a sequence of      *)
(* sequences, so grid_[r][c] is grid[r+1][c+1].  A std::bitset<32> is the *)
(* set of its set bit positions.  A Node* of the DLX engine is the        *)
(* position of the node in nodes_ (1-based); nullptr is 0.                *)
(***************************************************************************)
EXTENDS Integers, Sequences, FiniteSets, TLC

VARIABLES
    board,      \* the caller's Board object (the argument of the calls)
    board0,     \* history: value of the caller's Board when the call was made
    workBoard,  \* the engines' private Board (workBoard / result)
    err,        \* exception thrown out of the last operation, "" when none
    pc,         \* position of the program
    engine,     \* "bt" (BacktrackingSolver) or "dlx" (DLXSolver)
    op,         \* the ISolver method being executed
    maxSol,     \* the maxSolutions argument of findAllSolutions
    bt,         \* the BacktrackingSolver object
    dlx,        \* the DLXSolver object
    stack,      \* activation records of the recursion in progress
    retval,     \* value returned by the recursive call that just returned
    solutions,  \* solutions / solutionSets being collected by a find-all
    result,     \* what the finished call returned
    calls,      \* number of calls made on the solver object so far
    history,    \* history: the finished calls on the solver object, oldest first
    snap,       \* history: the nodes of the matrix as buildMatrix left them
    bench       \* the Benchmark object and the call of run / runMultithreaded on it

vars == <<board, board0, workBoard, err, pc, engine, op, maxSol, bt, dlx,
          stack, retval, solutions, result, calls, history, snap, bench>>

(***************************************************************************)
(* types.hpp: BoardDimension                                               *)
(***************************************************************************)
Dim(s, br, bc) == [size |-> s, box_rows |-> br, box_cols |-> bc]

\* static_cast<int>(std::sqrt(size)) for size >= 0
ISqrt(size) == CHOOSE i \in 0..size : i * i <= size /\ (i + 1) * (i + 1) > size

RECURSIVE FromSizeLoop(_, _)
FromSizeLoop(size, i) ==
    IF i < 1 THEN Dim(size, 1, size)
    ELSE IF size % i = 0 THEN Dim(size, i, size \div i)
    ELSE FromSizeLoop(size, i - 1)

\* the loop started at size / 2 instead of the square root
FromSizeFromHalf(size) == FromSizeLoop(size, size \div 2)

FromSize(size) == FromSizeLoop(size, ISqrt(size))

DimIsValid(d) ==
    d.size > 0 /\ d.box_rows > 0 /\ d.box_cols > 0 /\ d.box_rows * d.box_cols = d.size

(***************************************************************************)
(* board.cpp: Board                                                        *)
(***************************************************************************)
MkBoard(g, d) == [grid |-> g, dim |-> d]

\* The state of "no Board object": a constructor threw.
NoBoard == MkBoard(<<>>, Dim(0, 0, 0))

Ok(b) == [ok |-> TRUE, board |-> b, what |-> ""]
Throw(w) == [ok |-> FALSE, board |-> NoBoard, what |-> w]

\* initGrid: grid_.assign(size, std::vector<Cell>(size, 0))
InitGrid(size) == [r \in 1..size |-> [c \in 1..size |-> 0]]

\* Board::Board(const BoardDimension&)
BoardFromDim(d) ==
    IF ~DimIsValid(d) THEN Throw("invalid_argument")
    ELSE Ok(MkBoard(InitGrid(d.size), d))

\* Board::Board(const Grid&)
BoardFromGrid(g) ==
    IF g = <<>> \/ g[1] = <<>> THEN Throw("invalid_argument")
    ELSE IF Len(g[1]) # Len(g) THEN Throw("invalid_argument")
    ELSE Ok(MkBoard(g, FromSize(Len(g))))

\* Board::Board(const Grid&, const BoardDimension&)
BoardFromGridDim(g, d) ==
    IF ~DimIsValid(d) THEN Throw("invalid_argument")
    ELSE IF Len(g) # d.size \/ Len(g[1]) # d.size THEN Throw("invalid_argument")
    ELSE Ok(MkBoard(g, d))

IsInRange(b, row, col) ==
    row >= 0 /\ row < b.dim.size /\ col >= 0 /\ col < b.dim.size

IsValidValue(b, value) == value >= 1 /\ value <= b.dim.size

\* grid_[row][col] for a cell that exists
Cell(b, row, col) == b.grid[row + 1][col + 1]

\* Whether grid_[row][col] is an element of the vectors at all.
CellExists(b, row, col) ==
    row + 1 \in DOMAIN b.grid /\ col + 1 \in DOMAIN b.grid[row + 1]

\* grid_[row][col] = value
WithCell(b, row, col, value) ==
    [b EXCEPT !.grid[row + 1][col + 1] = value]

\* Board::set.  Writing a cell the vectors do not hold (a ragged grid) is
\* undefined: the write lands outside the row and the Board keeps its cells.
BoardSet(b, row, col, value) ==
    IF ~IsInRange(b, row, col) THEN [ok |-> FALSE, board |-> b, what |-> "out_of_range"]
    ELSE IF value # 0 /\ ~IsValidValue(b, value)
        THEN [ok |-> FALSE, board |-> b, what |-> "invalid_argument"]
    ELSE IF ~CellExists(b, row, col) THEN [ok |-> TRUE, board |-> b, what |-> ""]
    ELSE [ok |-> TRUE, board |-> WithCell(b, row, col, value), what |-> ""]

Indices(b) == 0 .. (b.dim.size - 1)

\* Board::getBoxStart
GetBoxStart(b, row, col) ==
    << (row \div b.dim.box_rows) * b.dim.box_rows,
       (col \div b.dim.box_cols) * b.dim.box_cols >>

\* a box index that counts the boxes of a band by box_rows
BoardBoxIndexByRows(b, row, col) ==
    (row \div b.dim.box_rows) * (b.dim.size \div b.dim.box_rows) + (col \div b.dim.box_cols)

\* Board::getBoxIndex
BoardBoxIndex(b, row, col) ==
    (row \div b.dim.box_rows) * (b.dim.size \div b.dim.box_cols) + (col \div b.dim.box_cols)

\* The "seen" scan of isRowValid / isColValid / isBoxValid over a set of cells:
\* it fails exactly when two of the cells hold the same non-zero value.
NoRepeat(b, cells) ==
    \A p \in cells : \A q \in cells :
        (p # q /\ Cell(b, p[1], p[2]) # 0) => Cell(b, p[1], p[2]) # Cell(b, q[1], q[2])

IsRowValid(b, row) == NoRepeat(b, {<<row, c>> : c \in Indices(b)})

IsColValid(b, col) == NoRepeat(b, {<<r, col>> : r \in Indices(b)})

IsBoxValid(b, boxRow, boxCol) ==
    LET s == GetBoxStart(b, boxRow, boxCol)
    IN  NoRepeat(b, {<<s[1] + i, s[2] + j>> :
                        i \in 0 .. (b.dim.box_rows - 1), j \in 0 .. (b.dim.box_cols - 1)})

\* Board::isValid
IsValid(b) ==
    /\ \A i \in Indices(b) : IsRowValid(b, i)
    /\ \A j \in Indices(b) : IsColValid(b, j)
    /\ \A bi \in 0 .. ((b.dim.size \div b.dim.box_rows) - 1) :
         \A bj \in 0 .. ((b.dim.size \div b.dim.box_cols) - 1) :
            IsBoxValid(b, bi * b.dim.box_rows, bj * b.dim.box_cols)

\* isValidPlacement without the scan of the box
IsValidPlacementNoBox(b, row, col, value) ==
    IF value = 0 THEN TRUE
    ELSE IF ~IsValidValue(b, value) THEN FALSE
    ELSE /\ \A c \in Indices(b) : ~(c # col /\ Cell(b, row, c) = value)
         /\ \A r \in Indices(b) : ~(r # row /\ Cell(b, r, col) = value)

\* Board::isValidPlacement
IsValidPlacement(b, row, col, value) ==
    IF value = 0 THEN TRUE
    ELSE IF ~IsValidValue(b, value) THEN FALSE
    ELSE LET s == GetBoxStart(b, row, col)
         IN  /\ \A c \in Indices(b) : ~(c # col /\ Cell(b, row, c) = value)
             /\ \A r \in Indices(b) : ~(r # row /\ Cell(b, r, col) = value)
             /\ \A i \in 0 .. (b.dim.box_rows - 1) : \A j \in 0 .. (b.dim.box_cols - 1) :
                    ~((s[1] + i # row \/ s[2] + j # col) /\ Cell(b, s[1] + i, s[2] + j) = value)

\* Board::hasEmptyCell
HasEmptyCell(b) == \E i \in Indices(b) : \E j \in Indices(b) : Cell(b, i, j) = 0

\* Board::isSolved
IsSolved(b) == ~HasEmptyCell(b) /\ IsValid(b)

\* Board::findFirstEmpty, in scan order; <<-1, -1>> when the board is full
FindFirstEmpty(b) ==
    LET n == b.dim.size
        empty == {k \in 0 .. (n * n - 1) : Cell(b, k \div n, k % n) = 0}
    IN  IF empty = {} THEN <<-1, -1>>
        ELSE LET k == CHOOSE x \in empty : \A y \in empty : x <= y
             IN  <<k \div n, k % n>>

(***************************************************************************)
(* solver_backtrack.cpp: BacktrackingSolver                                *)
(*                                                                         *)
(* The member functions that take the working Board by reference are       *)
(* operators on a pair w = [b |-> the Board, s |-> the solver object].     *)
(***************************************************************************)
\* BacktrackingSolver::BacktrackingSolver and the default member initialisers
BTNew ==
    [size |-> 0, box_rows |-> 0, box_cols |-> 0,
     candidates |-> <<>>, row_used |-> <<>>, col_used |-> <<>>, box_used |-> <<>>,
     iterations |-> 0, backtracks |-> 0,
     use_constraint_prop |-> TRUE, use_mrv |-> TRUE]

\* reset that keeps the counters
BTResetKeepCounters(s) ==
    [s EXCEPT !.candidates = <<>>,
              !.row_used = <<>>, !.col_used = <<>>, !.box_used = <<>>]

\* BacktrackingSolver::reset
BTReset(s) ==
    [s EXCEPT !.iterations = 0, !.backtracks = 0, !.candidates = <<>>,
              !.row_used = <<>>, !.col_used = <<>>, !.box_used = <<>>]

\* BacktrackingSolver::getBoxIndex
BTBoxIndex(s, row, col) ==
    (row \div s.box_rows) * (s.size \div s.box_cols) + (col \div s.box_cols)

\* BacktrackingSolver::initialize
BTInitialize(s, b) ==
    LET n == b.dim.size
        s1 == [s EXCEPT !.size = n, !.box_rows = b.dim.box_rows, !.box_cols = b.dim.box_cols]
        numBoxes == (n \div s1.box_rows) * (n \div s1.box_cols)
        rowUsed == [i \in 1..n |->
                      {Cell(b, i - 1, j) - 1 : j \in {c \in 0..(n - 1) : Cell(b, i - 1, c) # 0}}]
        colUsed == [j \in 1..n |->
                      {Cell(b, i, j - 1) - 1 : i \in {r \in 0..(n - 1) : Cell(b, r, j - 1) # 0}}]
        boxUsed == [k \in 1..numBoxes |->
                      {Cell(b, p[1], p[2]) - 1 :
                          p \in {q \in (0..(n - 1)) \X (0..(n - 1)) :
                                    Cell(b, q[1], q[2]) # 0 /\ BTBoxIndex(s1, q[1], q[2]) = k - 1}}]
        used(i, j) == rowUsed[i + 1] \cup colUsed[j + 1] \cup boxUsed[BTBoxIndex(s1, i, j) + 1]
    IN  [s1 EXCEPT
            !.row_used = rowUsed, !.col_used = colUsed, !.box_used = boxUsed,
            !.candidates = [i \in 1..n |-> [j \in 1..n |->
                IF Cell(b, i - 1, j - 1) = 0
                THEN {v \in 0..(n - 1) : v \notin used(i - 1, j - 1)}
                ELSE {}]]]

\* std::bitset<32>: set(pos) and test(pos) throw std::out_of_range for pos >= 32
BitsetSize == 32

\* Whether solve / findAllSolutions throws std::out_of_range out of a bitset:
\* with size_ > 32 initialize reaches set(val - 1) for a value above 32 or
\* used.test(32) for an empty cell, and on a board without either
\* propagateHiddenSingles reaches row_used_[0].test(32).
BitsetThrows(b) == b.dim.size > BitsetSize

\* no cell holds a value above 32
InRangeBits(b) ==
    \A i \in Indices(b) : \A j \in Indices(b) : Cell(b, i, j) <= BitsetSize

\* The solver as the exception leaves it.  The cells are taken in the order
\* of the loops: marking stops at the first value above 32; otherwise the
\* first empty cell has got its candidates below 32 when test(32) throws;
\* a full board with no value above 32 gets through initialize.
BTInitializeThrown(s, b) ==
    LET n == b.dim.size
        s1 == [s EXCEPT !.size = n, !.box_rows = b.dim.box_rows, !.box_cols = b.dim.box_cols]
        numBoxes == (n \div s1.box_rows) * (n \div s1.box_cols)
        val(k) == Cell(b, k \div n, k % n)
        big == {k \in 0..(n * n - 1) : val(k) > BitsetSize}
        empties == {k \in 0..(n * n - 1) : val(k) = 0}
        first(S) == CHOOSE k \in S : \A l \in S : k <= l
        stop == IF big = {} THEN n * n ELSE first(big)
        marked == {k \in 0..(stop - 1) : val(k) # 0}
        rowUsed == [i \in 1..n |-> {val(k) - 1 : k \in {l \in marked : l \div n = i - 1}}]
        colUsed == [j \in 1..n |-> {val(k) - 1 : k \in {l \in marked : l % n = j - 1}}]
        boxUsed == [x \in 1..numBoxes |->
                      {val(k) - 1 :
                          k \in {l \in marked : BTBoxIndex(s1, l \div n, l % n) = x - 1}}]
        used(i, j) == rowUsed[i + 1] \cup colUsed[j + 1] \cup boxUsed[BTBoxIndex(s1, i, j) + 1]
    IN  [s1 EXCEPT
            !.row_used = rowUsed, !.col_used = colUsed, !.box_used = boxUsed,
            !.candidates = [i \in 1..n |-> [j \in 1..n |->
                IF big = {} /\ empties # {} /\ first(empties) = (i - 1) * n + (j - 1)
                THEN {v \in 0..(BitsetSize - 1) : v \notin used(i - 1, j - 1)}
                ELSE {}]]]

\* updateCandidates without the mark in box_used_
UpdateCandidatesNoBox(s, row, col, value) ==
    LET v == value - 1
        startRow == (row \div s.box_rows) * s.box_rows
        startCol == (col \div s.box_cols) * s.box_cols
        inBox(i, j) == /\ i >= startRow /\ i < startRow + s.box_rows
                       /\ j >= startCol /\ j < startCol + s.box_cols
    IN  [s EXCEPT
            !.row_used[row + 1] = @ \cup {v},
            !.col_used[col + 1] = @ \cup {v},
            !.candidates = [i \in 1..s.size |-> [j \in 1..s.size |->
                IF i - 1 = row /\ j - 1 = col THEN {}
                ELSE IF i - 1 = row \/ j - 1 = col \/ inBox(i - 1, j - 1)
                    THEN s.candidates[i][j] \ {v}
                ELSE s.candidates[i][j]]]]

\* BacktrackingSolver::updateCandidates
UpdateCandidates(s, row, col, value) ==
    LET v == value - 1
        startRow == (row \div s.box_rows) * s.box_rows
        startCol == (col \div s.box_cols) * s.box_cols
        inBox(i, j) == /\ i >= startRow /\ i < startRow + s.box_rows
                       /\ j >= startCol /\ j < startCol + s.box_cols
    IN  [s EXCEPT
            !.row_used[row + 1] = @ \cup {v},
            !.col_used[col + 1] = @ \cup {v},
            !.box_used[BTBoxIndex(s, row, col) + 1] = @ \cup {v},
            !.candidates = [i \in 1..s.size |-> [j \in 1..s.size |->
                IF i - 1 = row /\ j - 1 = col THEN {}
                ELSE IF i - 1 = row \/ j - 1 = col \/ inBox(i - 1, j - 1)
                    THEN s.candidates[i][j] \ {v}
                ELSE s.candidates[i][j]]]]

\* board.set(row, col, value); updateCandidates(row, col, value);
Place(w, row, col, value) ==
    [b |-> BoardSet(w.b, row, col, value).board,
     s |-> UpdateCandidates(w.s, row, col, value)]

\* BacktrackingSolver::candidateCount
CandidateCount(s, row, col) == Cardinality(s.candidates[row + 1][col + 1])

\* The first v of "for (v = 0; v < size_; ++v)" with candidates_[i][j].test(v)
FirstCandidate(s, row, col) ==
    CHOOSE v \in s.candidates[row + 1][col + 1] :
        \A u \in s.candidates[row + 1][col + 1] : v <= u

\* BacktrackingSolver::propagateNakedSingles, from cell number k on
RECURSIVE NakedSinglesLoop(_, _, _)
NakedSinglesLoop(w, k, changed) ==
    LET n == w.s.size
        i == k \div n
        j == k % n
    IN  IF k >= n * n THEN [w |-> w, changed |-> changed]
        ELSE IF Cell(w.b, i, j) = 0 /\ CandidateCount(w.s, i, j) = 1
                /\ \E v \in 0..(n - 1) : v \in w.s.candidates[i + 1][j + 1]
            THEN NakedSinglesLoop(Place(w, i, j, FirstCandidate(w.s, i, j) + 1), k + 1, TRUE)
        ELSE NakedSinglesLoop(w, k + 1, changed)

PropagateNakedSingles(w) == NakedSinglesLoop(w, 0, FALSE)

\* One unit (a row, a column or a box) and one value v of propagateHiddenSingles:
\* the cells of the unit that are empty and have v among their candidates.
HiddenCells(w, cells, v) ==
    {p \in cells : Cell(w.b, p[1], p[2]) = 0 /\ v \in w.s.candidates[p[1] + 1][p[2] + 1]}

HiddenPlace(w, cells, v) ==
    LET hit == HiddenCells(w, cells, v)
    IN  IF Cardinality(hit) = 1
        THEN LET p == CHOOSE q \in hit : TRUE IN Place(w, p[1], p[2], v + 1)
        ELSE w

RowCells(s, i) == {<<i, j>> : j \in 0..(s.size - 1)}

ColCells(s, j) == {<<i, j>> : i \in 0..(s.size - 1)}

\* the cells of box boxIdx as the box loop of propagateHiddenSingles walks them
BoxCells(s, boxIdx) ==
    LET startRow == (boxIdx \div (s.size \div s.box_cols)) * s.box_rows
        startCol == (boxIdx % (s.size \div s.box_cols)) * s.box_cols
    IN  {<<startRow + di, startCol + dj>> :
            di \in 0..(s.box_rows - 1), dj \in 0..(s.box_cols - 1)}

\* "Check rows": k numbers the pairs (i, v) in loop order
RECURSIVE HiddenRowsLoop(_, _, _)
HiddenRowsLoop(w, k, changed) ==
    LET n == w.s.size
        i == k \div n
        v == k % n
    IN  IF k >= n * n THEN [w |-> w, changed |-> changed]
        ELSE IF v \in w.s.row_used[i + 1] THEN HiddenRowsLoop(w, k + 1, changed)
        ELSE HiddenRowsLoop(HiddenPlace(w, RowCells(w.s, i), v), k + 1,
                            changed \/ Cardinality(HiddenCells(w, RowCells(w.s, i), v)) = 1)

\* "Check columns"
RECURSIVE HiddenColsLoop(_, _, _)
HiddenColsLoop(w, k, changed) ==
    LET n == w.s.size
        j == k \div n
        v == k % n
    IN  IF k >= n * n THEN [w |-> w, changed |-> changed]
        ELSE IF v \in w.s.col_used[j + 1] THEN HiddenColsLoop(w, k + 1, changed)
        ELSE HiddenColsLoop(HiddenPlace(w, ColCells(w.s, j), v), k + 1,
                            changed \/ Cardinality(HiddenCells(w, ColCells(w.s, j), v)) = 1)

\* "Check boxes"
RECURSIVE HiddenBoxesLoop(_, _, _)
HiddenBoxesLoop(w, k, changed) ==
    LET n == w.s.size
        boxIdx == k \div n
        v == k % n
    IN  IF boxIdx >= Len(w.s.box_used) THEN [w |-> w, changed |-> changed]
        ELSE IF v \in w.s.box_used[boxIdx + 1] THEN HiddenBoxesLoop(w, k + 1, changed)
        ELSE HiddenBoxesLoop(HiddenPlace(w, BoxCells(w.s, boxIdx), v), k + 1,
                             changed \/ Cardinality(HiddenCells(w, BoxCells(w.s, boxIdx), v)) = 1)

\* BacktrackingSolver::propagateHiddenSingles
PropagateHiddenSingles(w) ==
    LET rows == HiddenRowsLoop(w, 0, FALSE)
        cols == HiddenColsLoop(rows.w, 0, rows.changed)
    IN  HiddenBoxesLoop(cols.w, 0, cols.changed)

\* the contradiction check without its test that the cell is empty
ContradictionAnyCell(w) ==
    \E i \in 0..(w.s.size - 1) : \E j \in 0..(w.s.size - 1) :
        w.s.candidates[i + 1][j + 1] = {}

\* "Check for contradictions": an empty cell without candidates
Contradiction(w) ==
    \E i \in 0..(w.s.size - 1) : \E j \in 0..(w.s.size - 1) :
        Cell(w.b, i, j) = 0 /\ w.s.candidates[i + 1][j + 1] = {}

\* a propagate that makes one round and does not repeat it after a change
PropagateOneRound(w) ==
    LET naked == PropagateNakedSingles(w)
        hidden == PropagateHiddenSingles(naked.w)
    IN  IF Contradiction(hidden.w) THEN [ok |-> FALSE, w |-> hidden.w]
        ELSE [ok |-> TRUE, w |-> hidden.w]

\* BacktrackingSolver::propagate
RECURSIVE Propagate(_)
Propagate(w) ==
    LET naked == PropagateNakedSingles(w)
        hidden == PropagateHiddenSingles(naked.w)
        changed == naked.changed \/ hidden.changed
    IN  IF Contradiction(hidden.w) THEN [ok |-> FALSE, w |-> hidden.w]
        ELSE IF changed THEN Propagate(hidden.w)
        ELSE [ok |-> TRUE, w |-> hidden.w]

\* The MRV scan of selectBestCell from cell number k on
RECURSIVE MRVLoop(_, _, _, _)
MRVLoop(w, k, minCount, best) ==
    LET n == w.s.size
        i == k \div n
        j == k % n
    IN  IF k >= n * n THEN best
        ELSE IF Cell(w.b, i, j) = 0 /\ CandidateCount(w.s, i, j) < minCount
            THEN IF CandidateCount(w.s, i, j) = 1 THEN <<i, j>>
                 ELSE MRVLoop(w, k + 1, CandidateCount(w.s, i, j), <<i, j>>)
        ELSE MRVLoop(w, k + 1, minCount, best)

IntMax == 2147483647

\* BacktrackingSolver::selectBestCell
SelectBestCell(w) ==
    IF ~w.s.use_mrv THEN FindFirstEmpty(w.b)
    ELSE MRVLoop(w, 0, IntMax, <<-1, -1>>)


(***************************************************************************)
(* solver_dlx.cpp: DLXSolver                                               *)
(*                                                                         *)
(* nodes_ is the sequence of Node records; a Node* is a position in it.    *)
(* The operators below work on the solver object d.                        *)
(***************************************************************************)
\* Node::Node() for the node that will sit at position self
NewNode(self) ==
    [left |-> self, right |-> self, up |-> self, down |-> self,
     column |-> 0, row_id |-> -1, size |-> 0, col_id |-> -1]

\* DLXSolver::DLXSolver
DLXNew ==
    [header |-> 0, nodes |-> <<>>, column_headers |-> <<>>, solution_rows |-> <<>>,
     size |-> 0, box_rows |-> 0, box_cols |-> 0, iterations |-> 0, backtracks |-> 0]

\* reset that keeps the node store
DLXResetKeepNodes(d) ==
    [d EXCEPT !.header = 0, !.column_headers = <<>>,
              !.solution_rows = <<>>, !.iterations = 0, !.backtracks = 0]

\* DLXSolver::reset
DLXReset(d) ==
    [d EXCEPT !.header = 0, !.nodes = <<>>, !.column_headers = <<>>,
              !.solution_rows = <<>>, !.iterations = 0, !.backtracks = 0]

\* DLXSolver::createColumnHeaders.  The header node goes to position h and
\* column i to position h + 1 + i; the loop links every column between its
\* predecessor (the header for column 0) and the header, so that in the end
\* the header and the columns form one circular list in index order.
\* column_headers_.resize keeps nothing: the loop assigns every entry.
CreateColumnHeaders(d, numConstraints) ==
    LET h == Len(d.nodes) + 1
        last == h + numConstraints
        headerNode == [NewNode(h) EXCEPT !.right = IF numConstraints > 0 THEN h + 1 ELSE h,
                                         !.left = last]
        colNode(i) == [NewNode(h + 1 + i) EXCEPT
                          !.col_id = i, !.column = h + 1 + i,
                          !.left = h + i,
                          !.right = IF i = numConstraints - 1 THEN h ELSE h + 2 + i]
    IN  [d EXCEPT !.header = h,
                  !.nodes = d.nodes \o <<headerNode>> \o [i \in 1..numConstraints |-> colNode(i - 1)],
                  !.column_headers = [i \in 1..numConstraints |-> h + i]]

\* the loop of addRow over the columns that are left, k-th column first
RECURSIVE AddRowLoop(_, _, _, _, _, _)
AddRowLoop(nodes, headers, rowId, columns, first, prev) ==
    IF columns = <<>> THEN nodes
    ELSE LET colIdx == Head(columns)
             colHeader == headers[colIdx + 1]
             node == Len(nodes) + 1
             fresh0 == [NewNode(node) EXCEPT
                          !.row_id = rowId, !.column = colHeader, !.col_id = colIdx,
                          !.up = nodes[colHeader].up, !.down = colHeader]
             n0 == Append(nodes, fresh0)
             n1 == [n0 EXCEPT ![n0[colHeader].up].down = node]
             n2 == [n1 EXCEPT ![colHeader].up = node, ![colHeader].size = @ + 1]
             n3 == IF first = 0 THEN n2
                   ELSE [n2 EXCEPT ![node].left = prev, ![node].right = first,
                                   ![prev].right = node, ![first].left = node]
         IN  AddRowLoop(n3, headers, rowId, Tail(columns),
                        IF first = 0 THEN node ELSE first, node)

\* DLXSolver::addRow
AddRow(d, rowId, columns) ==
    IF columns = <<>> THEN d
    ELSE [d EXCEPT !.nodes = AddRowLoop(d.nodes, d.column_headers, rowId, columns, 0, 0)]

\* DLXSolver::getRowId
GetRowId(d, row, col, val) == row * d.size * d.size + col * d.size + (val - 1)

\* decodeRowId with the row and the column taken in the wrong order
DecodeRowIdSwapped(d, rowId) ==
    << (rowId \div d.size) % d.size, (rowId \div d.size) \div d.size, (rowId % d.size) + 1 >>

\* DLXSolver::decodeRowId, as <<row, col, val>>
DecodeRowId(d, rowId) ==
    << (rowId \div d.size) \div d.size, (rowId \div d.size) % d.size, (rowId % d.size) + 1 >>

\* DLXSolver::cellConstraint
CellConstraint(d, row, col) == row * d.size + col

\* DLXSolver::rowConstraint
RowConstraint(d, row, val) == d.size * d.size + row * d.size + (val - 1)

\* DLXSolver::colConstraint
ColConstraint(d, col, val) == 2 * d.size * d.size + col * d.size + (val - 1)

\* boxConstraint with the box and the value in each other's place
BoxConstraintByValue(d, box, val) == 3 * d.size * d.size + (val - 1) * d.size + box

\* DLXSolver::boxConstraint
BoxConstraint(d, box, val) == 3 * d.size * d.size + box * d.size + (val - 1)

\* "int box = ..." of the cell loop of buildMatrix
BuildBox(d, row, col) ==
    (row \div d.box_rows) * (d.size \div d.box_cols) + (col \div d.box_cols)

\* the body of the cell loop of buildMatrix for one (row, col, val)
BuildValue(d, b, row, col, val) ==
    LET given == Cell(b, row, col)
        box == BuildBox(d, row, col)
    IN  IF given = 0 /\ ~IsValidPlacement(b, row, col, val) THEN d
        ELSE AddRow(d, GetRowId(d, row, col, val),
                    << CellConstraint(d, row, col), RowConstraint(d, row, val),
                       ColConstraint(d, col, val), BoxConstraint(d, box, val) >>)

\* "for (val = startVal; val <= endVal; ++val)"
RECURSIVE BuildValLoop(_, _, _, _, _, _)
BuildValLoop(d, b, row, col, val, endVal) ==
    IF val > endVal THEN d
    ELSE BuildValLoop(BuildValue(d, b, row, col, val), b, row, col, val + 1, endVal)

\* "for (col = 0; col < size_; ++col)"
RECURSIVE BuildColLoop(_, _, _, _)
BuildColLoop(d, b, row, col) ==
    LET given == Cell(b, row, col)
    IN  IF col >= d.size THEN d
        ELSE BuildColLoop(BuildValLoop(d, b, row, col,
                                       IF given # 0 THEN given ELSE 1,
                                       IF given # 0 THEN given ELSE d.size),
                          b, row, col + 1)

\* "for (row = 0; row < size_; ++row)"
RECURSIVE BuildRowLoop(_, _, _)
BuildRowLoop(d, b, row) ==
    IF row >= d.size THEN d
    ELSE BuildRowLoop(BuildColLoop(d, b, row, 0), b, row + 1)

\* DLXSolver::buildMatrix
BuildMatrix(d, b) ==
    LET d1 == [d EXCEPT !.size = b.dim.size, !.box_rows = b.dim.box_rows,
                        !.box_cols = b.dim.box_cols]
    IN  BuildRowLoop(CreateColumnHeaders(d1, 4 * d1.size * d1.size), b, 0)

\* the inner loop of cover without the decrement of the column's size
RECURSIVE CoverNodesKeepSize(_, _, _)
CoverNodesKeepSize(nodes, row, node) ==
    IF node = row THEN nodes
    ELSE LET n1 == [nodes EXCEPT ![nodes[node].down].up = nodes[node].up]
             n2 == [n1 EXCEPT ![n1[node].up].down = n1[node].down]
         IN  CoverNodesKeepSize(n2, row, n2[node].right)

\* the inner loop of cover: the nodes of one row, from node on
RECURSIVE CoverNodes(_, _, _)
CoverNodes(nodes, row, node) ==
    IF node = row THEN nodes
    ELSE LET n1 == [nodes EXCEPT ![nodes[node].down].up = nodes[node].up]
             n2 == [n1 EXCEPT ![n1[node].up].down = n1[node].down]
             n3 == [n2 EXCEPT ![n2[node].column].size = @ - 1]
         IN  CoverNodes(n3, row, n3[node].right)

\* the outer loop of cover: the rows of the column, from row on
RECURSIVE CoverRows(_, _, _)
CoverRows(nodes, col, row) ==
    IF row = col THEN nodes
    ELSE LET n1 == CoverNodes(nodes, row, nodes[row].right)
         IN  CoverRows(n1, col, n1[row].down)

\* DLXSolver::cover
Cover(nodes, col) ==
    LET n1 == [nodes EXCEPT ![nodes[col].right].left = nodes[col].left]
        n2 == [n1 EXCEPT ![n1[col].left].right = n1[col].right]
    IN  CoverRows(n2, col, n2[col].down)

\* the inner loop of uncover
RECURSIVE UncoverNodes(_, _, _)
UncoverNodes(nodes, row, node) ==
    IF node = row THEN nodes
    ELSE LET n1 == [nodes EXCEPT ![nodes[node].column].size = @ + 1]
             n2 == [n1 EXCEPT ![n1[node].down].up = node]
             n3 == [n2 EXCEPT ![n2[node].up].down = node]
         IN  UncoverNodes(n3, row, n3[node].left)

\* the outer loop of uncover
RECURSIVE UncoverRows(_, _, _)
UncoverRows(nodes, col, row) ==
    IF row = col THEN nodes
    ELSE LET n1 == UncoverNodes(nodes, row, nodes[row].left)
         IN  UncoverRows(n1, col, n1[row].up)

\* uncover that does not link the column header back into the header list
UncoverRowsOnly(nodes, col) == UncoverRows(nodes, col, nodes[col].up)

\* DLXSolver::uncover
Uncover(nodes, col) ==
    LET n1 == UncoverRows(nodes, col, nodes[col].up)
        n2 == [n1 EXCEPT ![n1[col].right].left = col]
    IN  [n2 EXCEPT ![n2[col].left].right = col]

\* the loop of selectColumn, from col on
RECURSIVE SelectLoop(_, _, _, _)
SelectLoop(d, col, minSize, best) ==
    IF col = d.header THEN best
    ELSE IF d.nodes[col].size < minSize
        THEN IF d.nodes[col].size <= 1 THEN col
             ELSE SelectLoop(d, d.nodes[col].right, d.nodes[col].size, col)
    ELSE SelectLoop(d, d.nodes[col].right, minSize, best)

\* a selection that scans the whole header list for the smallest size
SelectColumnWholeList(d) ==
    LET cols == {c \in {d.column_headers[i] : i \in DOMAIN d.column_headers} :
                    d.nodes[d.nodes[c].left].right = c}
        least == {c \in cols : \A x \in cols : d.nodes[c].size <= d.nodes[x].size}
    IN  IF cols = {} THEN 0 ELSE CHOOSE c \in least : \A x \in least : c <= x

\* DLXSolver::selectColumn; 0 is nullptr
SelectColumn(d) == SelectLoop(d, d.nodes[d.header].right, IntMax, 0)

\* "Cover all other columns in this row": node runs right from the row's node
RECURSIVE CoverRowColumns(_, _, _)
CoverRowColumns(nodes, row, node) ==
    IF node = row THEN nodes
    ELSE CoverRowColumns(Cover(nodes, nodes[node].column), row, nodes[node].right)

\* "Uncover all other columns in this row (reverse order)": node runs left
RECURSIVE UncoverRowColumns(_, _, _)
UncoverRowColumns(nodes, row, node) ==
    IF node = row THEN nodes
    ELSE UncoverRowColumns(Uncover(nodes, nodes[node].column), row, nodes[node].left)

\* the loop of solutionToBoard
RECURSIVE SolutionLoop(_, _, _)
SolutionLoop(d, rowIds, res) ==
    IF rowIds = <<>> THEN res
    ELSE LET t == DecodeRowId(d, Head(rowIds))
         IN  SolutionLoop(d, Tail(rowIds), BoardSet(res, t[1], t[2], t[3]).board)

\* DLXSolver::solutionToBoard
SolutionToBoard(d, rowIds, original) == SolutionLoop(d, rowIds, original)


(***************************************************************************)
(* The boards the calls are made on.                                       *)
(***************************************************************************)
\* largest maxSolutions argument tried
MaxSolutions == 5

\* most calls made on one solver object in SpecHistory
MaxCalls == 3

\* A 4x4 puzzle with 2x2 boxes whose cells (0,1), (2,0) and (3,3) are empty
\* and whose cells (0,0) and (2,1) take every value 0..4: the family holds
\* boards with one completion, with two, with none (valid or not).
Puzzle4(a, c) ==
    MkBoard(<< <<a, 0, 3, 4>>,
               <<3, 4, 1, 2>>,
               <<0, c, 4, 3>>,
               <<4, 3, 2, 0>> >>, Dim(4, 2, 2))

\* A 6x6 puzzle with 2x3 boxes whose cells (0,3), (1,0) and (1,3) are empty,
\* cell (0,0) taking every value 0..6
Puzzle6(a) ==
    MkBoard(<< <<a, 2, 3, 0, 5, 6>>,
               <<0, 5, 6, 0, 2, 3>>,
               <<2, 3, 1, 5, 6, 4>>,
               <<5, 6, 4, 2, 3, 1>>,
               <<3, 1, 2, 6, 4, 5>>,
               <<6, 4, 5, 3, 1, 2>> >>, Dim(6, 2, 3))

EmptyBoard(d) == BoardFromDim(d).board

Boards ==
    {Puzzle4(a, c) : a \in 0..4, c \in 0..4}
        \cup {Puzzle6(a) : a \in 0..6}
        \cup {EmptyBoard(Dim(4, 2, 2)), EmptyBoard(FromSize(3)), EmptyBoard(FromSize(2))}

\* the boards of the call histories
HistoryBoards == {Puzzle4(0, 0), Puzzle4(1, 2), EmptyBoard(FromSize(3))}

Engines == {"bt", "dlx"}

(***************************************************************************)
(* The calls, step by step.  pc is "idle" before the first call, "enter"   *)
(* at the entry of solveRecursive / solveAll / search / searchAll, "loop"  *)
(* at the head of their for loop, "ret" when one of them has just          *)
(* returned retval, and "done" when the ISolver method has returned.       *)
(***************************************************************************)
\* no call of the Benchmark object is in progress
NoBench == [pc |-> "none"]

NoResult == [kind |-> "none"]

\* the engine working on the caller's Board itself instead of a copy
WriteThrough(caller, w) ==
    /\ workBoard' = w
    /\ board' = w

\* "Board workBoard = board;" / "Board result = original;": the engines write
\* their own copy w, and the caller's Board keeps the value it had.
WriteWork(caller, w) ==
    /\ workBoard' = w
    /\ board' = caller

\* hasUniqueSolution stopping at the first solution
MaxOfOne(o, m) == IF o = "hasUnique" THEN 1 ELSE IF o = "findAll" THEN m ELSE 0

\* the maxSolutions of the search: hasUniqueSolution passes 2 to
\* findAllSolutions, solve has none
MaxOf(o, m) == IF o = "hasUnique" THEN 2 ELSE IF o = "findAll" THEN m ELSE 0

\* a finished call is remembered with its arguments and what it returned
Remember(P, m, res) == Append(history, [board |-> P, maxSol |-> m, result |-> res])

\* what solve() returns from its SolveResult, the timing left out
SolveResult(solved, solution, iterations, backtracks, algorithm, message) ==
    [kind |-> "solve", solved |-> solved, solution |-> solution,
     iterations |-> iterations, backtracks |-> backtracks,
     algorithm |-> algorithm, error_message |-> message]

BTName == "Backtracking with Constraint Propagation"

DLXName == "Dancing Links (Algorithm X)"

\* what findAllSolutions / hasUniqueSolution return from the list they collected
ListResult(o, boards) ==
    IF o = "hasUnique" THEN [kind |-> "hasUnique", unique |-> (Len(boards) = 1)]
    ELSE [kind |-> "findAll", boards |-> boards]

\* BacktrackingSolver::solve / findAllSolutions / hasUniqueSolution up to the
\* first call of solveRecursive / solveAll
BTCall(P, o, m) ==
    LET s0 == BTInitialize(BTReset(bt), P)
        p == IF s0.use_constraint_prop THEN Propagate([b |-> P, s |-> s0])
             ELSE [ok |-> TRUE, w |-> [b |-> P, s |-> s0]]
    IN  /\ engine = "bt"
        /\ board0' = P
        /\ op' = o
        /\ maxSol' = MaxOf(o, m)
        /\ calls' = calls + 1
        /\ stack' = <<>>
        /\ solutions' = <<>>
        /\ retval' = FALSE
        /\ IF BitsetThrows(P)
           THEN /\ err' = "out_of_range"
                /\ pc' = "done"
                /\ result' = NoResult
                /\ bt' = BTInitializeThrown(BTReset(bt), P)
                /\ WriteWork(P, IF HasEmptyCell(P) \/ ~InRangeBits(P) THEN workBoard ELSE P)
                /\ history' = history
           ELSE /\ err' = err
                /\ bt' = p.w.s
                /\ WriteWork(P, p.w.b)
                /\ IF p.ok THEN pc' = "enter" /\ result' = NoResult
                   ELSE /\ pc' = "done"
                        /\ result' = IF o = "solve"
                                     THEN SolveResult(FALSE, <<>>, 0, 0, BTName,
                                            "Puzzle is unsolvable (constraint propagation failed)")
                                     ELSE ListResult(o, <<>>)
                /\ history' = IF p.ok THEN history ELSE Remember(P, maxSol', result')
        /\ UNCHANGED <<engine, dlx, snap, bench>>

\* entry of solveRecursive / solveAll, up to the for loop
BTEnter ==
    LET s1 == [bt EXCEPT !.iterations = @ + 1]
        p == IF s1.use_constraint_prop THEN Propagate([b |-> workBoard, s |-> s1])
             ELSE [ok |-> TRUE, w |-> [b |-> workBoard, s |-> s1]]
        cell == SelectBestCell(p.w)
        found == cell[1] = -1 /\ IsValid(p.w.b)
    IN  /\ engine = "bt" /\ pc = "enter"
        /\ bt' = p.w.s
        /\ WriteWork(board, p.w.b)
        /\ IF ~p.ok THEN pc' = "ret" /\ retval' = FALSE /\ UNCHANGED <<stack, solutions>>
           ELSE IF cell[1] = -1
               THEN /\ pc' = "ret"
                    /\ UNCHANGED stack
                    /\ IF op = "solve" THEN retval' = found /\ UNCHANGED solutions
                       ELSE /\ solutions' = IF found THEN Append(solutions, p.w.b) ELSE solutions
                            /\ retval' = (found /\ Len(solutions') >= maxSol)
           ELSE IF p.w.s.candidates[cell[1] + 1][cell[2] + 1] = {}
               THEN pc' = "ret" /\ retval' = FALSE /\ UNCHANGED <<stack, solutions>>
           ELSE /\ pc' = "loop"
                /\ stack' = Append(stack, [row |-> cell[1], col |-> cell[2], v |-> 0,
                                           saved |-> [b |-> p.w.b, s |-> p.w.s],
                                           entry |-> [b |-> p.w.b, s |-> p.w.s]])
                /\ UNCHANGED <<retval, solutions>>
        /\ UNCHANGED <<board0, err, engine, op, maxSol, dlx, result, calls, history, snap, bench>>

\* one pass through the head of the for loop: the next candidate value is
\* placed and the recursive call entered, or the loop ends and false returns
BTLoop ==
    LET f == stack[Len(stack)]
        left == {v \in bt.candidates[f.row + 1][f.col + 1] : v >= f.v /\ v < bt.size}
        v == CHOOSE x \in left : \A y \in left : x <= y
        w == [b |-> workBoard, s |-> bt]
        placed == Place(w, f.row, f.col, v + 1)
    IN  /\ engine = "bt" /\ pc = "loop"
        /\ IF left = {}
           THEN /\ pc' = "ret" /\ retval' = FALSE
                /\ stack' = SubSeq(stack, 1, Len(stack) - 1)
                /\ UNCHANGED <<bt, board, workBoard>>
           ELSE /\ pc' = "enter"
                /\ stack' = [stack EXCEPT ![Len(stack)] = [f EXCEPT !.v = v, !.saved = w]]
                /\ bt' = placed.s
                /\ WriteWork(board, placed.b)
                /\ UNCHANGED retval
        /\ UNCHANGED <<board0, err, engine, op, maxSol, dlx, solutions, result, calls, history, snap, bench>>

\* a restore that puts back the board and forgets the candidates and masks
RestoreBoardOnly(s, b, saved) ==
    [b |-> [b EXCEPT !.grid = saved.b.grid],
     s |-> [s EXCEPT !.backtracks = @ + 1]]

\* a restore that puts back the board and the candidates and keeps the masks
RestoreKeepMasks(s, b, saved) ==
    [b |-> [b EXCEPT !.grid = saved.b.grid],
     s |-> [s EXCEPT !.candidates = saved.s.candidates, !.backtracks = @ + 1]]

\* "Backtrack - restore FULL state": board.grid(), candidates_ and the used
\* masks get the saved values back; the counters are not part of the snapshot
Restore(s, b, saved) ==
    [b |-> [b EXCEPT !.grid = saved.b.grid],
     s |-> [s EXCEPT !.candidates = saved.s.candidates, !.row_used = saved.s.row_used,
                     !.col_used = saved.s.col_used, !.box_used = saved.s.box_used,
                     !.backtracks = @ + 1]]

\* the recursive call made in the for loop has returned
BTReturn ==
    LET f == stack[Len(stack)]
        r == Restore(bt, workBoard, f.saved)
    IN  /\ engine = "bt" /\ pc = "ret" /\ stack # <<>>
        /\ IF retval
           THEN /\ stack' = SubSeq(stack, 1, Len(stack) - 1)
                /\ UNCHANGED <<pc, bt, board, workBoard>>
           ELSE /\ pc' = "loop"
                /\ stack' = [stack EXCEPT ![Len(stack)].v = f.v + 1]
                /\ bt' = r.s
                /\ WriteWork(board, r.b)
        /\ UNCHANGED <<board0, err, engine, op, maxSol, dlx, retval, solutions, result,
                       calls, history, snap, bench>>

\* the rest of solve / findAllSolutions / hasUniqueSolution after the search
BTFinish ==
    /\ engine = "bt" /\ pc = "ret" /\ stack = <<>>
    /\ pc' = "done"
    /\ result' = IF op = "solve"
                 THEN SolveResult(retval, workBoard.grid, bt.iterations, bt.backtracks, BTName,
                                  IF retval THEN "" ELSE "No solution found")
                 ELSE ListResult(op, solutions)
    /\ history' = Remember(board0, maxSol, result')
    /\ UNCHANGED <<board, board0, workBoard, err, engine, op, maxSol, bt, dlx, stack,
                   retval, solutions, calls, snap, bench>>


\* DLXSolver::solve / findAllSolutions / hasUniqueSolution up to the first call
\* of search / searchAll
DLXCall(P, o, m) ==
    /\ engine = "dlx"
    /\ board0' = P
    /\ op' = o
    /\ maxSol' = MaxOf(o, m)
    /\ calls' = calls + 1
    /\ dlx' = BuildMatrix(DLXReset(dlx), P)
    /\ WriteWork(P, workBoard)
    /\ stack' = <<>>
    /\ solutions' = <<>>
    /\ retval' = FALSE
    /\ pc' = "enter"
    /\ result' = NoResult
    /\ UNCHANGED <<err, engine, bt, history, snap, bench>>

\* entry of search / searchAll, up to the for loop
DLXEnter ==
    LET d1 == [dlx EXCEPT !.iterations = @ + 1]
        col == SelectColumn(d1)
        covered == Cover(d1.nodes, col)
    IN  /\ engine = "dlx" /\ pc = "enter"
        /\ IF d1.nodes[d1.header].right = d1.header
           THEN /\ pc' = "ret"
                /\ dlx' = d1
                /\ UNCHANGED stack
                /\ IF op = "solve" THEN retval' = TRUE /\ UNCHANGED solutions
                   ELSE /\ solutions' = Append(solutions, d1.solution_rows)
                        /\ retval' = (Len(solutions') >= maxSol)
           ELSE IF col = 0 \/ d1.nodes[col].size = 0
               THEN /\ pc' = "ret" /\ retval' = FALSE /\ dlx' = d1
                    /\ UNCHANGED <<stack, solutions>>
           ELSE /\ pc' = "loop"
                /\ dlx' = [d1 EXCEPT !.nodes = covered]
                /\ stack' = Append(stack, [col |-> col, row |-> covered[col].down])
                /\ UNCHANGED <<retval, solutions>>
        /\ UNCHANGED <<board, board0, workBoard, err, engine, op, maxSol, bt, result,
                       calls, history, snap, bench>>

\* the head of the for loop over the rows of the covered column: the row is
\* pushed and its other columns covered, or the loop ends, the column is
\* uncovered and false returns
DLXLoop ==
    LET f == stack[Len(stack)]
    IN  /\ engine = "dlx" /\ pc = "loop"
        /\ IF f.row = f.col
           THEN /\ pc' = "ret" /\ retval' = FALSE
                /\ dlx' = [dlx EXCEPT !.nodes = Uncover(dlx.nodes, f.col)]
                /\ stack' = SubSeq(stack, 1, Len(stack) - 1)
           ELSE /\ pc' = "enter"
                /\ dlx' = [dlx EXCEPT
                             !.solution_rows = Append(@, dlx.nodes[f.row].row_id),
                             !.nodes = CoverRowColumns(@, f.row, dlx.nodes[f.row].right)]
                /\ UNCHANGED <<stack, retval>>
        /\ UNCHANGED <<board, board0, workBoard, err, engine, op, maxSol, bt, solutions,
                       result, calls, history, snap, bench>>

\* solution_rows_.pop_back()
PopBack(rows) == SubSeq(rows, 1, Len(rows) - 1)

\* search: "if (search(depth + 1)) return true;" leaves the matrix as it is
SearchFound(d, f) == d

\* searchAll returning true at once, as search does
SearchAllFoundEarly(d, f) == d

\* searchAll: enough solutions found, the row and the column are uncovered
\* before true is returned
SearchAllFound(d, f) ==
    LET n1 == UncoverRowColumns(d.nodes, f.row, d.nodes[f.row].left)
    IN  [d EXCEPT !.solution_rows = PopBack(@), !.nodes = Uncover(n1, f.col)]

\* "Backtrack": the row is popped and its other columns uncovered in reverse
Backtrack(d, f) ==
    [d EXCEPT !.backtracks = @ + 1,
              !.solution_rows = PopBack(@),
              !.nodes = UncoverRowColumns(@, f.row, d.nodes[f.row].left)]

\* a return after which the for loop stays at the row that has just failed,
\* the counters as they were when the row was first tried
DLXReturnSameRow ==
    LET f == stack[Len(stack)]
        back == Backtrack(dlx, f)
    IN  /\ engine = "dlx" /\ pc = "ret" /\ stack # <<>>
        /\ IF retval
           THEN /\ stack' = SubSeq(stack, 1, Len(stack) - 1)
                /\ dlx' = IF op = "solve" THEN SearchFound(dlx, f) ELSE SearchAllFound(dlx, f)
                /\ UNCHANGED pc
           ELSE /\ pc' = "loop"
                /\ dlx' = [back EXCEPT !.backtracks = dlx.backtracks,
                                       !.iterations = dlx.iterations - 1]
                /\ stack' = stack
        /\ UNCHANGED <<board, board0, workBoard, err, engine, op, maxSol, bt, retval,
                       solutions, result, calls, history, snap, bench>>

\* the recursive call made in the for loop has returned
DLXReturn ==
    LET f == stack[Len(stack)]
        back == Backtrack(dlx, f)
    IN  /\ engine = "dlx" /\ pc = "ret" /\ stack # <<>>
        /\ IF retval
           THEN /\ stack' = SubSeq(stack, 1, Len(stack) - 1)
                /\ dlx' = IF op = "solve" THEN SearchFound(dlx, f) ELSE SearchAllFound(dlx, f)
                /\ UNCHANGED pc
           ELSE /\ pc' = "loop"
                /\ dlx' = back
                /\ stack' = [stack EXCEPT ![Len(stack)].row = back.nodes[f.row].down]
        /\ UNCHANGED <<board, board0, workBoard, err, engine, op, maxSol, bt, retval,
                       solutions, result, calls, history, snap, bench>>

\* the rest of solve / findAllSolutions / hasUniqueSolution after the search
DLXFinish ==
    LET solved == SolutionToBoard(dlx, dlx.solution_rows, board)
        boards == [i \in 1..Len(solutions) |-> SolutionToBoard(dlx, solutions[i], board)]
    IN  /\ engine = "dlx" /\ pc = "ret" /\ stack = <<>>
        /\ pc' = "done"
        /\ result' = IF op = "solve"
                     THEN SolveResult(retval, IF retval THEN solved.grid ELSE <<>>,
                                      dlx.iterations, dlx.backtracks, DLXName,
                                      IF retval THEN "" ELSE "No solution found")
                     ELSE ListResult(op, boards)
        /\ WriteWork(board, IF op = "solve" THEN (IF retval THEN solved ELSE workBoard)
                            ELSE IF boards = <<>> THEN workBoard
                            ELSE boards[Len(boards)])
        /\ history' = Remember(board0, maxSol, result')
        /\ UNCHANGED <<board0, err, engine, op, maxSol, bt, dlx, stack, retval, solutions,
                       calls, snap, bench>>

Ops == {"solve", "findAll", "hasUnique"}

\* the caller makes its one call, on any of the boards
Call ==
    /\ pc = "idle"
    /\ \E P \in Boards : \E o \in Ops :
         \E m \in IF o = "findAll" THEN 0..MaxSolutions ELSE {0} :
           IF engine = "bt" THEN BTCall(P, o, m) ELSE DLXCall(P, o, m)

\* the caller makes one more call on the same solver object; the first call,
\* on the new solver, is a solve
HistoryCall ==
    /\ pc \in {"idle", "done"}
    /\ calls < MaxCalls
    /\ \E P \in HistoryBoards : \E o \in Ops :
         \E m \in IF o = "findAll" THEN {1} ELSE {0} :
           /\ calls = 0 => o = "solve"
           /\ IF engine = "bt" THEN BTCall(P, o, m) ELSE DLXCall(P, o, m)

Init ==
    /\ engine \in Engines
    /\ board = NoBoard
    /\ board0 = NoBoard
    /\ workBoard = NoBoard
    /\ err = ""
    /\ pc = "idle"
    /\ op = "none"
    /\ maxSol = 0
    /\ bt = BTNew
    /\ dlx = DLXNew
    /\ stack = <<>>
    /\ retval = FALSE
    /\ solutions = <<>>
    /\ result = NoResult
    /\ calls = 0
    /\ history = <<>>
    /\ snap = <<>>
    /\ bench = NoBench

Step ==
    \/ BTEnter
    \/ BTLoop
    \/ BTReturn
    \/ BTFinish
    \/ DLXEnter
    \/ DLXLoop
    \/ DLXReturn
    \/ DLXFinish

Next == Call \/ Step

Spec == Init /\ [][Next]_vars

\* the caller calls reset() on the solver object between two calls, as the
\* benchmark runner does before every solve
ResetCall ==
    /\ pc = "done"
    /\ pc' = "idle"
    /\ bt' = IF engine = "bt" THEN BTReset(bt) ELSE bt
    /\ dlx' = IF engine = "dlx" THEN DLXReset(dlx) ELSE dlx
    /\ UNCHANGED <<board, board0, workBoard, err, engine, op, maxSol, stack, retval,
                   solutions, result, calls, history, snap, bench>>

HistoryNext == HistoryCall \/ ResetCall \/ Step

SpecHistory == Init /\ [][HistoryNext]_vars


(***************************************************************************)
(* What the claims speak of: completions of a board, stated without the    *)
(* engines.                                                                *)
(***************************************************************************)
CellsOf(b) == Indices(b) \X Indices(b)

\* the box of a cell: (r / M) * (N / K) + (c / K)
BoxOf(b, p) ==
    (p[1] \div b.dim.box_rows) * (b.dim.size \div b.dim.box_cols) + (p[2] \div b.dim.box_cols)

\* two different cells of one row, one column or one box
SameUnit(b, p, q) ==
    p # q /\ (p[1] = q[1] \/ p[2] = q[2] \/ BoxOf(b, p) = BoxOf(b, q))

\* every cell value is 0..N
InRangeCells(b) == \A p \in CellsOf(b) : Cell(b, p[1], p[2]) \in 0..b.dim.size

\* a valid board: no digit repeats in a row, a column or a box
Consistent(b) ==
    \A p \in CellsOf(b) : \A q \in CellsOf(b) :
        (SameUnit(b, p, q) /\ Cell(b, p[1], p[2]) # 0) => Cell(b, p[1], p[2]) # Cell(b, q[1], q[2])

\* g is a solved completion of P
CompletionOf(g, P) ==
    /\ g.dim = P.dim
    /\ Len(g.grid) = P.dim.size
    /\ \A r \in 1..Len(g.grid) : Len(g.grid[r]) = P.dim.size
    /\ \A p \in CellsOf(g) : Cell(g, p[1], p[2]) \in 1..P.dim.size
    /\ Consistent(g)
    /\ \A p \in CellsOf(P) : Cell(P, p[1], p[2]) # 0 => Cell(g, p[1], p[2]) = Cell(P, p[1], p[2])

\* the completions of the consistent board b that keep its cells, the cells
\* from number k on still to be filled
RECURSIVE Fill(_, _)
Fill(b, k) ==
    LET n == b.dim.size
        p == <<k \div n, k % n>>
        fits == {v \in 1..n : \A q \in CellsOf(b) : SameUnit(b, p, q) => Cell(b, q[1], q[2]) # v}
    IN  IF k >= n * n THEN {b}
        ELSE IF Cell(b, p[1], p[2]) # 0 THEN Fill(b, k + 1)
        ELSE UNION {Fill(WithCell(b, p[1], p[2], v), k + 1) : v \in fits}

Completions(P) == IF Consistent(P) THEN Fill(P, 0) ELSE {}

Min(a, b) == IF a <= b THEN a ELSE b

Done(o) == pc = "done" /\ result.kind = o

\* the elements of a sequence
Range(q) == {q[i] : i \in DOMAIN q}

(***************************************************************************)
(* The claims                                                              *)
(***************************************************************************)
\* C1: whenever solve(P) of either engine returns solved = true, the returned
\* grid is a solved completion of P: no empty cell, no digit twice in a row,
\* column or box, and every cell filled in P keeps its value.
C1_SolvedIsCompletion ==
    (Done("solve") /\ result.solved) =>
        CompletionOf(MkBoard(result.solution, board0.dim), board0)

\* C1 witness: a solve of a board with empty cells has returned solved = true
C1_Witness ==
    /\ Done("solve") /\ result.solved
    /\ HasEmptyCell(board0) /\ board0.dim.size = 4

\* C2: for a valid board P, solve of either engine reports solved exactly when
\* P has a completion (so the two engines agree), and the all-zero 4x4 board
\* is reported solved.
C2_SolvedIffCompletion ==
    (Done("solve") /\ Consistent(board0)) =>
        /\ result.solved = (Completions(board0) # {})
        /\ board0 = EmptyBoard(Dim(4, 2, 2)) => result.solved

\* C2 witness: the all-zero 4x4 board has been solved
C2_Witness ==
    Done("solve") /\ board0 = EmptyBoard(Dim(4, 2, 2)) /\ result.solved

\* C3: solve, find_all_solutions and has_unique_solution leave the caller's
\* board unchanged: from the call on, and when it has returned, the caller's
\* grid and dimension are those it passed.
C3_CallerBoardUnchanged == pc # "idle" => board = board0

\* C3 witness: a call has returned after the engine filled cells of its copy
C3_Witness ==
    pc = "done" /\ workBoard # NoBoard /\ workBoard # board0 /\ board = board0

\* C4 as claimed: for every max >= 0 find_all_solutions returns at most max
\* boards.
C4_AtMostMax == Done("findAll") => Len(result.boards) <= maxSol

\* C5: for a valid board P with k completions and max >= 1,
\* find_all_solutions(P, max) returns min(k, max) boards, pairwise distinct,
\* each a completion of P, and all k of them when max >= k.
C5_FindAllCount ==
    (Done("findAll") /\ Consistent(board0) /\ maxSol >= 1) =>
        LET all == Completions(board0)
        IN  /\ Len(result.boards) = Min(Cardinality(all), maxSol)
            /\ Cardinality(Range(result.boards)) = Len(result.boards)
            /\ Range(result.boards) \subseteq all
            /\ \A g \in Range(result.boards) : CompletionOf(g, board0)
            /\ maxSol >= Cardinality(all) => Range(result.boards) = all

\* C5 witness: a board with exactly two completions, max = 5, two boards back
C5_Witness ==
    /\ Done("findAll") /\ maxSol = 5
    /\ Cardinality(Completions(board0)) = 2
    /\ Len(result.boards) = 2

\* C6: for a valid board P, has_unique_solution(P) is true exactly when P has
\* one completion, and that is exactly when find_all_solutions(P, 2) returns a
\* list of length 1.
C6_UniqueIffOne ==
    /\ (Done("hasUnique") /\ Consistent(board0)) =>
           result.unique = (Cardinality(Completions(board0)) = 1)
    /\ (Done("findAll") /\ maxSol = 2 /\ Consistent(board0)) =>
           (Len(result.boards) = 1) = (Cardinality(Completions(board0)) = 1)

\* C6 witness: has_unique_solution answered false for a board with two completions
C6_Witness ==
    Done("hasUnique") /\ ~result.unique /\ Cardinality(Completions(board0)) = 2


\* the rows buildMatrix adds for board P: the given value of a filled cell,
\* every value that can be placed in an empty one
MatrixRowCount(P) ==
    Cardinality({t \in CellsOf(P) \X (1..P.dim.size) :
                    \/ Cell(P, t[1][1], t[1][2]) = t[2]
                    \/ /\ Cell(P, t[1][1], t[1][2]) = 0
                       /\ IsValidPlacement(P, t[1][1], t[1][2], t[2])})

\* C8 as stated: after DLXSolver::solve returns, solved or not, the node
\* store, the column-header table and the header pointer are cleared.
C8_ReleasedOnReturn ==
    (engine = "dlx" /\ Done("solve")) =>
        (dlx.nodes = <<>> /\ dlx.column_headers = <<>> /\ dlx.header = 0)

\* C8 amended: after DLXSolver::solve returns the solver owns the matrix of
\* that call and nothing else (the header node first, then the 4N^2 column
\* headers, then four nodes for each row), and after reset() or construction
\* the node store, the column-header table and the header pointer are cleared.
C8_ReleasedOnReset ==
    /\ (engine = "dlx" /\ Done("solve")) =>
          /\ dlx.header = 1
          /\ Len(dlx.column_headers) = 4 * board0.dim.size * board0.dim.size
          /\ Len(dlx.nodes) = 1 + Len(dlx.column_headers) + 4 * MatrixRowCount(board0)
    /\ (engine = "dlx" /\ pc = "idle") =>
          (dlx.nodes = <<>> /\ dlx.column_headers = <<>> /\ dlx.header = 0)

\* a second or later solve of the DLX solver has returned, its matrix owned
C8_Witness ==
    /\ engine = "dlx"
    /\ Done("solve")
    /\ calls >= 2
    /\ history[Len(history) - 1].board # board0
    /\ dlx.nodes # <<>>

\* reset() has been called on a DLX solver that had solved a board
C8_WitnessReset ==
    /\ engine = "dlx"
    /\ pc = "idle"
    /\ calls >= 1
    /\ dlx.nodes = <<>>

\* C9: solve(P) on a solver object with earlier calls returns the same solved
\* flag, solution, iterations and backtracks as solve(P) on a new solver did.
C9_SolveIgnoresHistory ==
    \A i \in 1..Len(history) :
        (history[i].result.kind = "solve" /\ history[i].board = history[1].board)
            => history[i].result = history[1].result

\* a solve of the board of the first call has returned after a find-all on
\* another board that stopped at its maximum
C9_Witness ==
    /\ Done("solve")
    /\ Len(history) = 3
    /\ history[3].board = history[1].board
    /\ history[2].board # history[1].board
    /\ history[2].result.kind = "findAll"
    /\ Len(history[2].result.boards) = history[2].maxSol
    /\ history[1].result.solved
    /\ history[1].result.iterations > 0

(***************************************************************************)
(* cover / uncover on their own: any column header may be covered, and the *)
(* uncover calls undo the covers in reverse order.  The stack holds the    *)
(* covered columns that are not yet uncovered, each with the nodes as they *)
(* were when its cover returned; snap holds the nodes as buildMatrix left  *)
(* them; op is the most recent call.  pc is "cover" as long as every cover *)
(* so far was called on a column that was not covered at that time, and    *)
(* "covered_twice" once an already covered column has been covered again.  *)
(***************************************************************************)
\* deepest nesting of cover calls
MaxNest == 3

CoverBoards ==
    {EmptyBoard(FromSize(2)),
     MkBoard(<< <<1, 0>>, <<0, 0>> >>, FromSize(2)),
     MkBoard(<< <<0, 2>>, <<0, 0>> >>, Dim(2, 2, 1))}

CoverInit ==
    /\ engine = "dlx"
    /\ board \in CoverBoards
    /\ board0 = board
    /\ workBoard = NoBoard
    /\ err = ""
    /\ pc = "cover"
    /\ op = "none"
    /\ maxSol = 0
    /\ bt = BTNew
    /\ dlx = BuildMatrix(DLXNew, board)
    /\ snap = dlx.nodes
    /\ bench = NoBench
    /\ stack = <<>>
    /\ retval = FALSE
    /\ solutions = <<>>
    /\ result = NoResult
    /\ calls = 0
    /\ history = <<>>

\* the columns covered and not yet uncovered
Covered == {stack[i].col : i \in 1..Len(stack)}

\* cover(col) for any column header col; after a cover of an already covered
\* column the sequence is only unwound
CoverCall ==
    /\ pc = "cover"
    /\ Len(stack) < MaxNest
    /\ \E col \in Range(dlx.column_headers) :
          /\ dlx' = [dlx EXCEPT !.nodes = Cover(@, col)]
          /\ stack' = Append(stack, [col |-> col, after |-> dlx'.nodes])
          /\ pc' = IF col \in Covered THEN "covered_twice" ELSE pc
    /\ op' = "cover"
    /\ UNCHANGED <<board, board0, workBoard, err, engine, maxSol, bt, retval,
                   solutions, result, calls, history, snap, bench>>

\* uncover(col) for the column of the most recent cover not yet undone
UncoverCall ==
    /\ pc \in {"cover", "covered_twice"}
    /\ stack # <<>>
    /\ dlx' = [dlx EXCEPT !.nodes = Uncover(@, stack[Len(stack)].col)]
    /\ stack' = SubSeq(stack, 1, Len(stack) - 1)
    /\ op' = "uncover"
    /\ UNCHANGED <<board, board0, workBoard, err, pc, engine, maxSol, bt, retval,
                   solutions, result, calls, history, snap, bench>>

CoverNext == CoverCall \/ UncoverCall

SpecCover == CoverInit /\ [][CoverNext]_vars

\* the nodes as they were before the most recent cover not yet undone by the
\* uncover that has just returned
BeforeLastCover == IF stack = <<>> THEN snap ELSE stack[Len(stack)].after

\* C7 as stated: after any properly nested sequence of cover / uncover calls
\* on a matrix built from a board, every node's left, right, up and down links
\* and every size are what they were before the sequence.
C7_AnyNestedCoverRestores ==
    (op = "uncover" /\ stack = <<>>) => dlx.nodes = snap

\* C7 amended: when no cover is called on a column that is already covered,
\* each uncover gives back the links and sizes that its cover found, so a
\* complete properly nested sequence gives back the matrix it started from.
C7_NestedCoverRestores ==
    (pc = "cover" /\ op = "uncover") => dlx.nodes = BeforeLastCover

\* an uncover has returned at depth one of a nest of distinct columns, the
\* matrix being different from the built one
C7_Witness ==
    /\ pc = "cover"
    /\ op = "uncover"
    /\ Len(stack) = 1
    /\ dlx.nodes # snap
    /\ dlx.nodes = stack[1].after

\* a complete nest of covers of distinct columns has been undone
C7_WitnessWhole ==
    /\ pc = "cover"
    /\ op = "uncover"
    /\ stack = <<>>
    /\ dlx.nodes = snap

(***************************************************************************)
(* The Board class on its own: a Board is constructed from a dimension or  *)
(* from a grid, and cells are then written with set.  pc is "noboard"      *)
(* until a constructor returns, "board" while the Board lives and          *)
(* "crashed" when a call had undefined behaviour that ended the program;   *)
(* op is the most recent call, history holds the grid given to the most    *)
(* recent constructor and err what the most recent call threw.             *)
(***************************************************************************)
\* grids given to the constructors: empty, square, with a value outside
\* [0, N], with rows of different lengths, and rectangular
Grids ==
    { <<>>,
      << <<>> >>,
      << <<0>> >>,
      << <<2>> >>,
      << <<0, 0>>, <<0, 0>> >>,
      << <<5, 0>>, <<0, 0>> >>,
      << <<0, 0>>, <<0>> >>,
      << <<0, 0, 0>>, <<0, 0, 0>> >>,
      << <<0>>, <<0>> >> }

\* dimensions given to the constructors
Dims == {Dim(0, 0, 0), Dim(1, 1, 1), Dim(2, 1, 2), Dim(2, 2, 2), Dim(3, 1, 2)}

BoardInit ==
    /\ engine = "bt"
    /\ board = NoBoard
    /\ board0 = NoBoard
    /\ workBoard = NoBoard
    /\ err = ""
    /\ pc = "noboard"
    /\ op = "none"
    /\ maxSol = 0
    /\ bt = BTNew
    /\ dlx = DLXNew
    /\ stack = <<>>
    /\ retval = FALSE
    /\ solutions = <<>>
    /\ result = NoResult
    /\ calls = 0
    /\ history = <<>>
    /\ snap = <<>>
    /\ bench = NoBench

\* a constructor has returned r, or thrown
Constructed(o, g, r) ==
    /\ op' = o
    /\ history' = <<[grid |-> g]>>
    /\ board' = r.board
    /\ err' = r.what
    /\ pc' = IF r.ok THEN "board" ELSE "noboard"
    /\ UNCHANGED <<board0, workBoard, engine, maxSol, bt, dlx, stack, retval,
                   solutions, result, calls, snap, bench>>

\* Board(const BoardDimension&)
ConstructFromDim ==
    /\ pc = "noboard"
    /\ \E d \in Dims : Constructed("Board(dim)", <<>>, BoardFromDim(d))

\* Board(int size): Board(BoardDimension::FromSize(size))
ConstructFromSize ==
    /\ pc = "noboard"
    /\ \E size \in 0..2 : Constructed("Board(size)", <<>>, BoardFromDim(FromSize(size)))

\* Board(const Grid&)
ConstructFromGrid ==
    /\ pc = "noboard"
    /\ \E g \in Grids : Constructed("Board(grid)", g, BoardFromGrid(g))

\* Board(const Grid&, const BoardDimension&); with an empty grid and a valid
\* dimension the first test is already true and grid[0] is not evaluated
ConstructFromGridDim ==
    /\ pc = "noboard"
    /\ \E g \in Grids : \E d \in Dims :
          Constructed("Board(grid, dim)", g, BoardFromGridDim(g, d))

\* Board::set.  grid_[row][col] of a cell that a short row does not hold is
\* undefined behaviour: the write is lost outside the row, or the program
\* ends.  history keeps the arguments and the grid the call found.
SetCall ==
    /\ pc = "board"
    /\ \E row \in -1..2 : \E col \in -1..2 : \E value \in -1..3 :
         LET r == BoardSet(board, row, col, value)
             undefined == IsInRange(board, row, col)
                            /\ (value = 0 \/ IsValidValue(board, value))
                            /\ ~CellExists(board, row, col)
         IN  /\ board' = r.board
             /\ err' = r.what
             /\ pc' \in IF undefined THEN {"board", "crashed"} ELSE {"board"}
             /\ history' = <<[grid |-> board.grid, row |-> row, col |-> col,
                              value |-> value]>>
    /\ op' = "set"
    /\ UNCHANGED <<board0, workBoard, engine, maxSol, bt, dlx, stack, retval,
                   solutions, result, calls, snap, bench>>

\* Board::get.  Reading a cell that a short row does not hold is undefined
\* behaviour: some value is read, or the program ends.
GetCall ==
    /\ pc = "board"
    /\ \E row \in -1..2 : \E col \in -1..2 :
         /\ history' = <<[grid |-> board.grid, row |-> row, col |-> col, value |-> 0]>>
         /\ IF ~IsInRange(board, row, col)
            THEN err' = "out_of_range" /\ pc' = pc /\ result' = NoResult
            ELSE IF ~CellExists(board, row, col)
            THEN /\ err' = ""
                 /\ pc' \in {"board", "crashed"}
                 /\ \E v \in -1..3 : result' = [kind |-> "get", value |-> v]
            ELSE /\ err' = ""
                 /\ pc' = pc
                 /\ result' = [kind |-> "get", value |-> Cell(board, row, col)]
    /\ op' = "get"
    /\ UNCHANGED <<board, board0, workBoard, engine, maxSol, bt, dlx, stack, retval,
                   solutions, calls, snap, bench>>

BoardNext ==
    \/ ConstructFromDim
    \/ ConstructFromSize
    \/ ConstructFromGrid
    \/ ConstructFromGridDim
    \/ SetCall
    \/ GetCall

SpecBoard == BoardInit /\ [][BoardNext]_vars

\* g has n rows of n cells
SquareGrid(g, n) == Len(g) = n /\ \A r \in 1..Len(g) : Len(g[r]) = n

\* every cell of g is in [0, n]
GridInRange(g, n) == \A r \in 1..Len(g) : \A c \in 1..Len(g[r]) : g[r][c] \in 0..n

\* C10: every Board obtained from the constructors and set is a square N x N
\* grid with all cell values in [0, N], and constructing a Board from a grid
\* that is not square or holds a value outside [0, N] fails with
\* InvalidArgument.
C10_BoardWellFormed ==
    /\ pc = "board" =>
          /\ SquareGrid(board.grid, board.dim.size)
          /\ GridInRange(board.grid, board.dim.size)
    /\ (op \in {"Board(grid)", "Board(grid, dim)"}
          /\ (~SquareGrid(history[1].grid, Len(history[1].grid))
                \/ ~GridInRange(history[1].grid, Len(history[1].grid))))
       => (pc = "noboard" /\ err = "invalid_argument")

(***************************************************************************)
(* BoardDimension on its own: a dimension (size, box_rows, box_cols) is    *)
(* given; FromSize derives a dimension from its size, and the Board        *)
(* constructors are called with the dimension or with its size.  history   *)
(* holds the dimension given, result the dimension FromSize returned.      *)
(***************************************************************************)
\* largest size of a dimension given
MaxSize == 36

\* largest box_rows and box_cols of a dimension given
MaxBox == 6

DimArgs == {Dim(s, br, bc) : s \in 0..MaxSize, br \in 0..MaxBox, bc \in 0..MaxBox}

DimInit ==
    /\ engine = "bt"
    /\ board = NoBoard
    /\ board0 = NoBoard
    /\ workBoard = NoBoard
    /\ err = ""
    /\ pc = "noboard"
    /\ op = "none"
    /\ maxSol = 0
    /\ bt = BTNew
    /\ dlx = DLXNew
    /\ stack = <<>>
    /\ retval = FALSE
    /\ solutions = <<>>
    /\ result = NoResult
    /\ calls = 0
    /\ \E d \in DimArgs : history = <<[dim |-> d]>>
    /\ snap = <<>>
    /\ bench = NoBench

\* a Board constructor called with a dimension has returned r, or thrown
DimConstructed(o, r) ==
    /\ pc = "noboard"
    /\ op = "none"
    /\ op' = o
    /\ board' = r.board
    /\ err' = r.what
    /\ pc' = IF r.ok THEN "board" ELSE "noboard"
    /\ UNCHANGED <<board0, workBoard, engine, maxSol, bt, dlx, stack, retval,
                   solutions, result, calls, history, snap, bench>>

\* Board(const BoardDimension&) with the dimension given
DimConstruct == DimConstructed("Board(dim)", BoardFromDim(history[1].dim))

\* Board(int size) with the size of the dimension given
DimConstructSize ==
    DimConstructed("Board(size)", BoardFromDim(FromSize(history[1].dim.size)))

\* BoardDimension::FromSize with the size of the dimension given
DimFromSize ==
    /\ pc = "noboard"
    /\ op = "none"
    /\ op' = "FromSize"
    /\ result' = [kind |-> "dim", dim |-> FromSize(history[1].dim.size)]
    /\ UNCHANGED <<board, board0, workBoard, err, pc, engine, maxSol, bt, dlx, stack,
                   retval, solutions, calls, history, snap, bench>>

DimNext == DimConstruct \/ DimConstructSize \/ DimFromSize

SpecDim == DimInit /\ [][DimNext]_vars

\* M * K = N, M >= 1, K >= 1 and N <= 32
DimInvariant(d) ==
    d.box_rows * d.box_cols = d.size /\ d.box_rows >= 1 /\ d.box_cols >= 1 /\ d.size <= 32

\* C11: every constructed Board has a dimension with M * K = N, M >= 1,
\* K >= 1 and N <= 32, and constructing a Board with a dimension that violates
\* any of these fails.
C11_DimensionInvariant ==
    /\ pc = "board" => DimInvariant(board.dim)
    /\ (op = "Board(dim)" /\ ~DimInvariant(history[1].dim))
          => (pc = "noboard" /\ err = "invalid_argument")

\* a is at least as close to the square root of n as b is:
\* |a - sqrt(n)| <= |b - sqrt(n)|, in integers
CloserToSqrt(a, b, n) ==
    IF a = b THEN TRUE
    ELSE IF a > b THEN (a + b) * (a + b) <= 4 * n
    ELSE (a + b) * (a + b) >= 4 * n

\* the standard instances
StandardDims ==
    {Dim(4, 2, 2), Dim(6, 2, 3), Dim(9, 3, 3), Dim(12, 3, 4), Dim(16, 4, 4), Dim(25, 5, 5)}

\* C18: for N in 1..32 FromSize(N) is (N, M, K) with M * K = N, M the divisor
\* of N closest to sqrt(N), M <= K, and for N in {4, 6, 9, 12, 16, 25} it is
\* the standard instance.
C18_FromSizeClosest ==
    (op = "FromSize" /\ history[1].dim.size \in 1..32) =>
        LET n == history[1].dim.size
            d == result.dim
        IN  /\ d.size = n
            /\ d.box_rows * d.box_cols = n
            /\ d.box_rows >= 1
            /\ d.box_rows <= d.box_cols
            /\ \A e \in 1..n : n % e = 0 => CloserToSqrt(d.box_rows, e, n)
            /\ \A sd \in StandardDims : sd.size = n => d = sd

\* FromSize(12) has returned the 3x4 boxes
C18_Witness ==
    /\ op = "FromSize"
    /\ history[1].dim.size = 12
    /\ result.dim = Dim(12, 3, 4)

\* grid g1 is grid g0 with cell (row, col) set to value and nothing else changed
OnlyCellChanged(g0, g1, row, col, value) ==
    /\ Len(g1) = Len(g0)
    /\ \A i \in 1..Len(g0) : Len(g1[i]) = Len(g0[i])
    /\ row + 1 \in 1..Len(g1)
    /\ col + 1 \in 1..Len(g1[row + 1])
    /\ \A i \in 1..Len(g1) : \A j \in 1..Len(g1[i]) :
          g1[i][j] = IF i = row + 1 /\ j = col + 1 THEN value ELSE g0[i][j]

\* C12: get and set with a row or column outside [0, N), and set with a value
\* outside [0, N], fail with InvalidArgument and leave every cell unchanged;
\* set with in-range arguments changes exactly cell (r, c) to v.
C12_GetSetErrors ==
    op \in {"get", "set"} =>
        LET h == history[1]
            n == board.dim.size
            indexOk == h.row \in 0..(n - 1) /\ h.col \in 0..(n - 1)
            valueOk == h.value \in 0..n
        IN  /\ ~indexOk => (err = "invalid_argument" /\ board.grid = h.grid)
            /\ (op = "set" /\ indexOk /\ ~valueOk)
                  => (err = "invalid_argument" /\ board.grid = h.grid)
            /\ (op = "set" /\ indexOk /\ valueOk)
                  => /\ pc = "board"
                     /\ err = ""
                     /\ OnlyCellChanged(h.grid, board.grid, h.row, h.col, h.value)

\* C12 for a Board with N rows of N cells, whatever the exception type:
\* a failing call leaves every cell unchanged and a set with in-range
\* arguments changes exactly cell (r, c) to v.
C12_SquareBoardGetSet ==
    (op \in {"get", "set"} /\ SquareGrid(history[1].grid, board.dim.size)) =>
        LET h == history[1]
            n == board.dim.size
            indexOk == h.row \in 0..(n - 1) /\ h.col \in 0..(n - 1)
            valueOk == h.value \in 0..n
        IN  /\ ~indexOk => (err = "out_of_range" /\ board.grid = h.grid)
            /\ (op = "set" /\ indexOk /\ ~valueOk)
                  => (err = "invalid_argument" /\ board.grid = h.grid)
            /\ (op = "set" /\ indexOk /\ valueOk)
                  => /\ pc = "board"
                     /\ err = ""
                     /\ OnlyCellChanged(h.grid, board.grid, h.row, h.col, h.value)

\* C12 with the exception type of the code (out_of_range for a row or column)
\* on every Board the constructors return
C12_AnyBoardGetSet ==
    op \in {"get", "set"} =>
        LET h == history[1]
            n == board.dim.size
            indexOk == h.row \in 0..(n - 1) /\ h.col \in 0..(n - 1)
            valueOk == h.value \in 0..n
        IN  /\ ~indexOk => (err = "out_of_range" /\ board.grid = h.grid)
            /\ (op = "set" /\ indexOk /\ ~valueOk)
                  => (err = "invalid_argument" /\ board.grid = h.grid)
            /\ (op = "set" /\ indexOk /\ valueOk)
                  => /\ pc = "board"
                     /\ err = ""
                     /\ OnlyCellChanged(h.grid, board.grid, h.row, h.col, h.value)

(***************************************************************************)
(* The calls of Spec, and the backtracking engine called with a Board of   *)
(* more than 32 rows, which the Board constructors return.  The matrix of  *)
(* such a Board has more than 4356 columns: the DLX engine is called with  *)
(* the boards of Boards only.                                              *)
(***************************************************************************)
LargeBoards == {EmptyBoard(FromSize(BitsetSize + 1))}

LargeCall ==
    /\ pc = "idle"
    /\ engine = "bt"
    /\ \E P \in LargeBoards : \E o \in Ops : BTCall(P, o, 0)

LargeNext == Call \/ LargeCall \/ Step

SpecLarge == Init /\ [][LargeNext]_vars

\* C13: for any board with in-range cells solve of either engine returns
\* normally, with solved = false and a non-empty error message when the board
\* is not solved, and with an empty error message when solved = true.
C13_UnsolvableIsValue ==
    (pc = "done" /\ op = "solve" /\ InRangeCells(board0)) =>
        /\ err = ""
        /\ result.kind = "solve"
        /\ result.solved => result.error_message = ""
        /\ ~result.solved => result.error_message # ""

\* C13 for the boards of at most 32 rows
C13_ValueUpTo32 ==
    (pc = "done" /\ op = "solve" /\ InRangeCells(board0) /\ board0.dim.size <= BitsetSize) =>
        /\ err = ""
        /\ result.kind = "solve"
        /\ result.solved => result.error_message = ""
        /\ ~result.solved => result.error_message # ""

(***************************************************************************)
(* benchmark.cpp: Benchmark::run, workerTask and runMultithreaded.         *)
(* bench holds the Benchmark object's config_, the arguments and locals of *)
(* the call in progress, the worker threads and the steady clock (now).    *)
(* A solve is taken by what it returns: the solver's counters after the    *)
(* search and the solved flag.  The solvers that SolverFactory creates     *)
(* return the same for the same puzzle, so the puzzle is given by that     *)
(* outcome; the ISolver& handed to run can be any solver.  A double is an  *)
(* exact fraction [num, den], with den = 0 for a division by zero;         *)
(* std_dev_ms (a square root) is left out.                                 *)
(***************************************************************************)
\* most workers and most runs per worker in config_
MaxWorkers == 2
MaxRuns == 2

\* most warm-up runs in config_
MaxWarmup == 1

\* the steady clock advances at most MaxTicks times, by 1 or by LongTick
MaxTicks == 2
LongTick == 150

BASELINE_WARMUP == 10
BASELINE_RUNS == 100

\* what solve returns for a puzzle: solved in 2 iterations, or not solved
\* after 1 iteration and 1 backtrack
SolveOutcomes ==
    {[solved |-> TRUE, iterations |-> 2, backtracks |-> 0],
     [solved |-> FALSE, iterations |-> 1, backtracks |-> 1]}

\* a double as a fraction
Frac(n, d) == [num |-> n, den |-> d]
FracMul(a, k) == Frac(a.num * k, a.den)
FracDiv(a, k) == Frac(a.num, a.den * k)

\* BenchmarkResult as constructed: all_solved = true, runs = 0, result empty
NewBenchmarkResult ==
    [min_time_ms |-> 0, max_time_ms |-> 0, avg_time_ms |-> Frac(0, 1),
     total_iterations |-> 0, total_backtracks |-> 0, runs |-> 0, all_solved |-> TRUE,
     result |-> [solved |-> FALSE, iterations |-> 0, backtracks |-> 0, time_ms |-> 0]]

RECURSIVE SumSeq(_)
SumSeq(q) == IF q = <<>> THEN 0 ELSE q[1] + SumSeq(Tail(q))

MinSeq(q) == CHOOSE x \in Range(q) : \A y \in Range(q) : x <= y
MaxSeq(q) == CHOOSE x \in Range(q) : \A y \in Range(q) : x >= y

\* "Calculate statistics" of run and workerTask on the result r
Statistics(r, runs, allSolved, times, iterations, backtracks) ==
    LET r1 == [r EXCEPT !.runs = runs, !.all_solved = allSolved]
    IN  IF times = <<>> THEN r1
        ELSE [r1 EXCEPT !.min_time_ms = MinSeq(times),
                        !.max_time_ms = MaxSeq(times),
                        !.avg_time_ms = Frac(SumSeq(times), Len(times)),
                        !.total_iterations = SumSeq(iterations),
                        !.total_backtracks = SumSeq(backtracks)]

\* the locals of run / workerTask before the loops
NewTask ==
    [pc |-> "unlaunched", i |-> 0, k |-> 0, start |-> 0,
     times |-> <<>>, iterations |-> <<>>, backtracks |-> <<>>, allSolved |-> TRUE,
     cur |-> [solved |-> FALSE, iterations |-> 0, backtracks |-> 0],
     warm |-> <<>>, returned |-> <<>>, result |-> NewBenchmarkResult]

\* a solver's counters after construction or reset()
NewCounters == [iterations |-> 0, backtracks |-> 0]

\* everything but bench
NotBench ==
    <<board, board0, workBoard, err, pc, engine, op, maxSol, bt, dlx,
      stack, retval, solutions, result, calls, history, snap>>

\* the steady clock advances
Tick ==
    /\ bench.pc \notin {"none", "returned"}
    /\ bench.ticks < MaxTicks
    /\ \E d \in {1, LongTick} :
          bench' = [bench EXCEPT !.now = @ + d, !.ticks = @ + 1]
    /\ UNCHANGED NotBench

\* a call of run or runMultithreaded on a Benchmark with some config_
BenchCall ==
    /\ pc = "bench"
    /\ bench.pc = "none"
    /\ \E c \in {"run", "runMultithreaded"} :
       \E nw \in 1..MaxWorkers : \E runs \in 0..MaxRuns : \E wu \in 0..MaxWarmup :
       \E puzzle \in SolveOutcomes :
          /\ c = "run" => nw = 1
          /\ c = "runMultithreaded" => wu = 0
          /\ bench' = [pc |-> IF c = "run" THEN "run" ELSE "warmup",
                       call |-> c,
                       config |-> [num_workers |-> nw, runs |-> runs, warmup_runs |-> wu],
                       puzzle |-> puzzle,
                       now |-> 0,
                       ticks |-> 0,
                       i |-> 0,
                       baseline |-> [warmup |-> 0, timed |-> 0],
                       timer |-> [start |-> 0, elapsed |-> 0, stopped |-> FALSE],
                       singleSolveTime |-> Frac(0, 1),
                       wall |-> [started |-> FALSE, stopped |-> FALSE, start |-> 0],
                       solvers |-> [x \in 0..nw |-> NewCounters],
                       task |-> [NewTask EXCEPT !.pc = IF c = "run" THEN "warmup" ELSE "unlaunched"],
                       workers |-> [w \in 1..nw |-> NewTask],
                       launched |-> 0,
                       result |-> [kind |-> "none"]]
    /\ UNCHANGED NotBench

\* the solver a worker uses: the one it created itself
SolverShared(w) == 0
SolverOf(w) == w

\* if (!solveResult.solved) allSolved = false;
LastSolved(allSolved, solved) == solved
AndSolved(allSolved, solved) == allSolved /\ solved

\* solver.reset() and the entry of solve for the puzzle outcome o
TaskBegin(t, o, now) == [t EXCEPT !.k = 0, !.start = now, !.cur = o]

\* one iteration of the search: the solver counts it
SearchStep(t, s) ==
    [iterations |-> s.iterations + 1,
     backtracks |-> s.backtracks + (IF t.k < t.cur.backtracks THEN 1 ELSE 0)]

\* what solve returns from the solver's counters s
SolveReturn(t, s, now) ==
    [solved |-> t.cur.solved, iterations |-> s.iterations,
     backtracks |-> s.backtracks, time_ms |-> now - t.start]

\* the body of the timed loop after solve returned r
TaskRecord(t, r, saveLast) ==
    [t EXCEPT !.i = @ + 1,
              !.times = Append(@, r.time_ms),
              !.iterations = Append(@, r.iterations),
              !.backtracks = Append(@, r.backtracks),
              !.allSolved = AndSolved(@, r.solved),
              !.returned = Append(@, r.solved),
              !.result = IF saveLast THEN [@ EXCEPT !.result = r] ELSE @]

\* the statistics and the return of run / workerTask
TaskFinish(t, runs) ==
    [t EXCEPT !.pc = "done",
              !.result = Statistics(@, runs, t.allSolved, t.times, t.iterations, t.backtracks)]

\* run: the warm-up loop; a warm-up solve returns anything and records nothing
RunWarmup ==
    /\ bench.pc = "run"
    /\ bench.task.pc = "warmup"
    /\ IF bench.task.i < bench.config.warmup_runs
       THEN \E o \in SolveOutcomes :
               bench' = [bench EXCEPT
                            !.solvers[0] = [iterations |-> o.iterations,
                                            backtracks |-> o.backtracks],
                            !.task.warm = Append(@, o.solved),
                            !.task.i = @ + 1]
       ELSE bench' = [bench EXCEPT !.task.pc = "loop", !.task.i = 0]
    /\ UNCHANGED NotBench

\* run: the head of the timed loop (reset, solve entered) and the exit of the
\* loop (statistics, return)
RunLoop ==
    /\ bench.pc = "run"
    /\ bench.task.pc = "loop"
    /\ IF bench.task.i < bench.config.runs
       THEN \E o \in SolveOutcomes :
               bench' = [bench EXCEPT
                            !.solvers[0] = NewCounters,
                            !.task = [TaskBegin(@, o, bench.now) EXCEPT !.pc = "search"]]
       ELSE LET t == TaskFinish(bench.task, bench.config.runs)
            IN  bench' = [bench EXCEPT !.task = t,
                                       !.pc = "returned",
                                       !.result = [kind |-> "single", r |-> t.result]]
    /\ UNCHANGED NotBench

\* run: the search of the solve in progress, and its return into the loop body
RunSearch ==
    /\ bench.pc = "run"
    /\ bench.task.pc = "search"
    /\ IF bench.task.k < bench.task.cur.iterations
       THEN bench' = [bench EXCEPT
                         !.solvers[0] = SearchStep(bench.task, @),
                         !.task.k = @ + 1]
       ELSE LET r == SolveReturn(bench.task, bench.solvers[0], bench.now)
            IN  bench' = [bench EXCEPT
                             !.task = [TaskRecord(@, r, FALSE) EXCEPT !.pc = "loop"]]
    /\ UNCHANGED NotBench

\* a whole solve of the puzzle on the baseline solver
BaselineSolve(b) ==
    [b EXCEPT !.solvers[0] = [iterations |-> b.puzzle.iterations,
                              backtracks |-> b.puzzle.backtracks],
              !.baseline = IF b.pc = "warmup" THEN [@ EXCEPT !.warmup = @ + 1]
                                              ELSE [@ EXCEPT !.timed = @ + 1],
              !.i = @ + 1]

\* runMultithreaded: the baseline's warm-up loop, then timer.start()
BaselineWarmup ==
    /\ bench.pc = "warmup"
    /\ IF bench.i < BASELINE_WARMUP
       THEN bench' = BaselineSolve(bench)
       ELSE bench' = [bench EXCEPT !.pc = "baseline", !.i = 0,
                                   !.timer.start = bench.now]
    /\ UNCHANGED NotBench

\* runMultithreaded: the baseline's timed loop, then timer.stop() and the
\* average per solve
BaselineRun ==
    /\ bench.pc = "baseline"
    /\ IF bench.i < BASELINE_RUNS
       THEN bench' = BaselineSolve(bench)
       ELSE LET e == bench.now - bench.timer.start
            IN  bench' = [bench EXCEPT !.pc = "wallstart", !.i = 0,
                                       !.timer.elapsed = e,
                                       !.timer.stopped = TRUE,
                                       !.singleSolveTime = Frac(e, BASELINE_RUNS)]
    /\ UNCHANGED NotBench

\* runMultithreaded: wallTimer.start()
WallStart ==
    /\ bench.pc = "wallstart"
    /\ bench' = [bench EXCEPT !.pc = "launch",
                              !.wall = [started |-> TRUE, stopped |-> FALSE,
                                        start |-> bench.now]]
    /\ UNCHANGED NotBench

\* MultithreadResult before the futures are collected
NewMultithreadResult(c) ==
    [kind |-> "multi", num_workers |-> c.num_workers, runs_per_worker |-> c.runs,
     total_runs |-> c.num_workers * c.runs, all_solved |-> TRUE,
     total_cpu_time_ms |-> Frac(0, 1), worker_results |-> <<>>,
     wall_time_ms |-> 0, avg_time_per_solve_ms |-> Frac(0, 1),
     throughput |-> Frac(0, 1), speedup |-> Frac(0, 1), efficiency |-> Frac(0, 1)]

\* runMultithreaded: the launch loop; std::launch::async starts the thread
Launch ==
    /\ bench.pc = "launch"
    /\ IF bench.i < bench.config.num_workers
       THEN bench' = [bench EXCEPT !.workers[bench.i + 1].pc = "loop",
                                   !.launched = @ + 1,
                                   !.i = @ + 1]
       ELSE bench' = [bench EXCEPT !.pc = "join", !.i = 0,
                                   !.result = NewMultithreadResult(bench.config)]
    /\ UNCHANGED NotBench

\* workerTask: the head of the loop (reset, solve entered) and its exit
WorkerLoop(w) ==
    /\ bench.pc \in {"launch", "join"}
    /\ bench.workers[w].pc = "loop"
    /\ IF bench.workers[w].i < bench.config.runs
       THEN bench' = [bench EXCEPT
                         !.solvers[SolverOf(w)] = NewCounters,
                         !.workers[w] = [TaskBegin(@, bench.puzzle, bench.now)
                                            EXCEPT !.pc = "search"]]
       ELSE bench' = [bench EXCEPT !.workers[w] = TaskFinish(@, bench.config.runs)]
    /\ UNCHANGED NotBench

\* workerTask: the search of the solve in progress, and its return
WorkerSearch(w) ==
    /\ bench.pc \in {"launch", "join"}
    /\ bench.workers[w].pc = "search"
    /\ LET t == bench.workers[w]
       IN  IF t.k < t.cur.iterations
           THEN bench' = [bench EXCEPT
                             !.solvers[SolverOf(w)] = SearchStep(t, @),
                             !.workers[w].k = @ + 1]
           ELSE LET r == SolveReturn(t, bench.solvers[SolverOf(w)], bench.now)
                IN  bench' = [bench EXCEPT
                                 !.workers[w] = [TaskRecord(@, r, TRUE)
                                                    EXCEPT !.pc = "loop"]]
    /\ UNCHANGED NotBench

Worker ==
    /\ bench.pc \in {"launch", "join"}
    /\ \E w \in DOMAIN bench.workers : WorkerLoop(w) \/ WorkerSearch(w)

\* future.get() returns once the worker's task has returned
JoinNoWait(b, w) == TRUE
JoinReady(b, w) == b.workers[w].pc = "done"

\* a / b + c / d
FracAdd(x, y) == Frac(x.num * y.den + y.num * x.den, x.den * y.den)

\* result.efficiency = result.speedup / config_.num_workers
Efficiency(speedup, c) == FracDiv(speedup, c.num_workers)

\* "Calculate aggregated statistics" on the result r
Aggregated(r, single, c) ==
    LET expectedSingleThreadTime == FracMul(single, r.total_runs)
        speedup == FracDiv(expectedSingleThreadTime, r.wall_time_ms)
    IN  [r EXCEPT !.avg_time_per_solve_ms = FracDiv(r.total_cpu_time_ms, r.total_runs),
                  !.throughput = Frac(r.total_runs * 1000, r.wall_time_ms),
                  !.speedup = speedup,
                  !.efficiency = Efficiency(speedup, c)]

\* runMultithreaded: the collecting loop, then wallTimer.stop()
Join ==
    /\ bench.pc = "join"
    /\ IF bench.i < bench.config.num_workers
       THEN /\ JoinReady(bench, bench.i + 1)
            /\ LET wr == bench.workers[bench.i + 1].result
               IN  bench' = [bench EXCEPT
                                !.i = @ + 1,
                                !.result.total_cpu_time_ms =
                                     FracAdd(@, FracMul(wr.avg_time_ms, wr.runs)),
                                !.result.all_solved = AndSolved(@, wr.all_solved),
                                !.result.worker_results = Append(@, wr)]
       ELSE bench' = [bench EXCEPT !.pc = "aggregate",
                                   !.wall.stopped = TRUE,
                                   !.result.wall_time_ms = bench.now - bench.wall.start]
    /\ UNCHANGED NotBench

\* runMultithreaded: the aggregate figures and the return
Aggregate ==
    /\ bench.pc = "aggregate"
    /\ bench' = [bench EXCEPT
                    !.pc = "returned",
                    !.result = Aggregated(@, bench.singleSolveTime, bench.config)]
    /\ UNCHANGED NotBench

BenchInit ==
    /\ engine = "bt"
    /\ board = NoBoard
    /\ board0 = NoBoard
    /\ workBoard = NoBoard
    /\ err = ""
    /\ pc = "bench"
    /\ op = "none"
    /\ maxSol = 0
    /\ bt = BTNew
    /\ dlx = DLXNew
    /\ stack = <<>>
    /\ retval = FALSE
    /\ solutions = <<>>
    /\ result = NoResult
    /\ calls = 0
    /\ history = <<>>
    /\ snap = <<>>
    /\ bench = NoBench

BenchNext ==
    \/ BenchCall
    \/ Tick
    \/ RunWarmup
    \/ RunLoop
    \/ RunSearch
    \/ BaselineWarmup
    \/ BaselineRun
    \/ WallStart
    \/ Launch
    \/ Worker
    \/ Join
    \/ Aggregate

SpecBench == BenchInit /\ [][BenchNext]_vars

\* the state is inside a runMultithreaded call or just after it
InMulti == bench.pc \notin {"none", "run"} /\ bench.call = "runMultithreaded"

\* the workers that have been launched
Launched == {w \in DOMAIN bench.workers : bench.workers[w].pc # "unlaunched"}

\* the worker w has completed all of its runs solves and returned
Completed(w) ==
    /\ bench.workers[w].pc = "done"
    /\ Len(bench.workers[w].returned) = bench.config.runs

\* C14: in runMultithreaded the baseline's 100 timed solves follow its 10
\* warm-up solves and are finished, with the timer stopped, before the
\* wall-clock interval starts; a worker is launched only after the interval
\* started; the interval stops only when all num_workers workers have
\* completed their runs solves and have been joined; and the call returns its
\* aggregate figures only after that, from exactly num_workers worker results.
C14_PhasesOrdered ==
    InMulti =>
       /\ bench.baseline.timed > 0 => bench.baseline.warmup = BASELINE_WARMUP
       /\ bench.wall.started =>
             /\ bench.baseline.warmup = BASELINE_WARMUP
             /\ bench.baseline.timed = BASELINE_RUNS
             /\ bench.timer.stopped
             /\ bench.timer.start + bench.timer.elapsed <= bench.wall.start
       /\ Launched # {} => bench.wall.started
       /\ \A w \in Launched : bench.workers[w].pc = "search" \/ bench.workers[w].i > 0 =>
             bench.workers[w].start >= bench.wall.start
       /\ bench.wall.stopped =>
             /\ \A w \in DOMAIN bench.workers : Completed(w)
             /\ Len(bench.result.worker_results) = bench.config.num_workers
             /\ \A w \in DOMAIN bench.workers :
                   bench.result.worker_results[w] = bench.workers[w].result
       /\ bench.pc = "returned" =>
             /\ bench.wall.stopped
             /\ Len(bench.result.worker_results) = bench.config.num_workers
             /\ bench.result.wall_time_ms >= 0

\* a runMultithreaded call with two workers of two runs each has returned
C14_Witness ==
    /\ InMulti
    /\ bench.pc = "returned"
    /\ bench.config.num_workers = MaxWorkers
    /\ bench.config.runs = MaxRuns
    /\ bench.result.wall_time_ms > 0

\* a worker run alone: the search of one solve on the worker's own solver
RECURSIVE AloneSearch(_, _)
AloneSearch(t, s) ==
    IF t.k < t.cur.iterations
    THEN AloneSearch([t EXCEPT !.k = @ + 1], SearchStep(t, s))
    ELSE s

\* a worker run alone: its loop of runs solves of the puzzle outcome o
RECURSIVE AloneTask(_, _, _)
AloneTask(t, o, runs) ==
    IF t.i < runs
    THEN LET t1 == TaskBegin(t, o, 0)
             r == SolveReturn(t1, AloneSearch(t1, NewCounters), 0)
         IN  AloneTask(TaskRecord(t1, r, TRUE), o, runs)
    ELSE TaskFinish(t, runs)

Alone == AloneTask(NewTask, bench.puzzle, bench.config.runs).result

\* the counts of a worker's result agree with those of the result r
SameCounts(w, r) ==
    /\ bench.workers[w].result.runs = r.runs
    /\ bench.workers[w].result.all_solved = r.all_solved
    /\ bench.workers[w].result.total_iterations = r.total_iterations
    /\ bench.workers[w].result.total_backtracks = r.total_backtracks

\* the parallel phase of runMultithreaded: from the first launch to the last join
Parallel == InMulti /\ bench.pc \in {"launch", "join"}

\* C15: under every interleaving of the workers, a worker that has returned
\* reports the runs count, all_solved flag, total_iterations and
\* total_backtracks it produces when run alone, its vectors hold one entry per
\* solve it made, and no step of the parallel phase writes the puzzle or the
\* benchmark configuration.
C15_WorkersIndependent ==
    /\ [](InMulti =>
            \A w \in DOMAIN bench.workers :
               /\ Len(bench.workers[w].times) = bench.workers[w].i
               /\ Len(bench.workers[w].iterations) = bench.workers[w].i
               /\ Len(bench.workers[w].backtracks) = bench.workers[w].i
               /\ bench.workers[w].pc = "done" => SameCounts(w, Alone))
    /\ [][Parallel => /\ bench'.puzzle = bench.puzzle
                      /\ bench'.config = bench.config]_vars

\* the first worker has returned its two solves while the second is in the
\* middle of the search of its second solve
C15_Witness ==
    /\ Parallel
    /\ bench.config.num_workers = MaxWorkers
    /\ bench.config.runs = MaxRuns
    /\ bench.workers[1].pc = "done"
    /\ bench.workers[1].result.total_iterations > 0
    /\ bench.workers[2].pc = "search"
    /\ bench.workers[2].i = 1
    /\ bench.workers[2].k = 1

\* every timed solve recorded in the sequence q of returned flags was solved
EverySolved(q) == \A j \in 1..Len(q) : q[j]

\* C16: all_solved is the conjunction over the timed solves: run returns
\* all_solved = true iff each of its runs timed solves returned solved = true,
\* whatever the warm-up solves returned, and runMultithreaded returns
\* all_solved = true iff every one of the num_workers * runs worker solves
\* returned solved = true.
C16_AllSolvedIsConjunction ==
    bench.pc = "returned" =>
       IF bench.call = "run"
       THEN /\ Len(bench.task.returned) = bench.config.runs
            /\ Len(bench.task.warm) = bench.config.warmup_runs
            /\ bench.result.r.all_solved <=> EverySolved(bench.task.returned)
       ELSE /\ SumSeq([w \in DOMAIN bench.workers |-> Len(bench.workers[w].returned)])
                  = bench.config.num_workers * bench.config.runs
            /\ bench.result.all_solved <=>
                  \A w \in DOMAIN bench.workers : EverySolved(bench.workers[w].returned)

\* run has returned all_solved = true after a failed warm-up solve and two
\* solved timed solves
C16_Witness ==
    /\ bench.pc = "returned"
    /\ bench.call = "run"
    /\ bench.task.warm = <<FALSE>>
    /\ bench.task.returned = <<TRUE, TRUE>>
    /\ bench.result.r.all_solved

\* runMultithreaded has returned all_solved = false from two workers
C16_WitnessWorkers ==
    /\ bench.pc = "returned"
    /\ bench.call = "runMultithreaded"
    /\ bench.config.num_workers = MaxWorkers
    /\ bench.config.runs > 0
    /\ ~bench.result.all_solved

\* fractions of non-negative parts: x = y, and 0 < x <= 1 (a fraction of
\* denominator 0 is an infinity or a NaN and lies in no interval)
FracEq(x, y) == x.den # 0 /\ y.den # 0 /\ x.num * y.den = y.num * x.den
InUnitInterval(x) == x.den > 0 /\ x.num > 0 /\ x.num <= x.den

\* a runMultithreaded call with num_workers >= 1 and runs >= 1 has returned
MultiReturned ==
    /\ InMulti
    /\ bench.pc = "returned"
    /\ bench.config.num_workers >= 1
    /\ bench.config.runs >= 1

\* C17: for every runMultithreaded result with num_workers >= 1 and runs >= 1,
\* efficiency = speedup / num_workers with speedup = (single_solve_time *
\* total_runs) / wall_time_ms, and efficiency lies in the interval (0, 1]
\* whatever the measured baseline and wall-clock durations are.
C17_EfficiencyInUnitInterval ==
    MultiReturned =>
       /\ bench.result.speedup =
             Frac(bench.timer.elapsed * bench.result.total_runs,
                  BASELINE_RUNS * bench.result.wall_time_ms)
       /\ bench.result.efficiency =
             Frac(bench.result.speedup.num,
                  bench.result.speedup.den * bench.config.num_workers)
       /\ InUnitInterval(bench.result.efficiency)

\* the formulas of C17 alone: they hold of every result, and the efficiency is
\* a positive number whenever both measured durations are positive
C17_EfficiencyFormula ==
    MultiReturned =>
       /\ bench.result.speedup =
             Frac(bench.timer.elapsed * bench.result.total_runs,
                  BASELINE_RUNS * bench.result.wall_time_ms)
       /\ bench.result.efficiency =
             Frac(bench.result.speedup.num,
                  bench.result.speedup.den * bench.config.num_workers)
       /\ bench.timer.elapsed > 0 /\ bench.result.wall_time_ms > 0 =>
             bench.result.efficiency.num > 0 /\ bench.result.efficiency.den > 0

\* the baseline took LongTick for its 100 solves and the one worker's one run
\* took 1 of wall-clock time: an efficiency above 1
C17_AboveOne ==
    /\ MultiReturned
    /\ bench.config.num_workers = 1
    /\ bench.config.runs = 1
    /\ bench.timer.elapsed = LongTick
    /\ bench.result.wall_time_ms = 1
    /\ bench.result.efficiency.num > bench.result.efficiency.den

(***************************************************************************)
(* json_handler.cpp: JSONHandler::loadFromJSON for a puzzle given as one   *)
(* string ({"puzzle": "..."}) or as row strings ({"grid": ["..", ".."]}),  *)
(* without explicit dimensions.  A character is its ASCII code.            *)
(***************************************************************************)
\* longest single string, longest row string and most row strings
MaxStrLen == 4
MaxRowLen == 2
MaxRows == 2

\* ' ', '*', '.', '0', '2', 'B', 'b'
Chars == {32, 42, 46, 48, 50, 66, 98}

Strings(n) == UNION {[1..k -> Chars] : k \in 0..n}

\* std::isspace in the "C" locale
IsSpace(c) == c = 32 \/ (c >= 9 /\ c <= 13)

\* a recognised puzzle character: digit 1-9, letter, or an empty marker
Recognised(c) ==
    \/ c >= 49 /\ c <= 57
    \/ c >= 65 /\ c <= 90
    \/ c >= 97 /\ c <= 122
    \/ c \in {48, 46, 95, 32}

\* the cell parseSingleString stores for the character c
SingleCell(c) ==
    IF c >= 49 /\ c <= 57 THEN c - 48
    ELSE IF c >= 65 /\ c <= 90 THEN 10 + (c - 65)
    ELSE IF c >= 97 /\ c <= 122 THEN 10 + (c - 97)
    ELSE 0

\* JSONHandler::parseSingleString
ParseSingleString(str) ==
    LET cleaned == SelectSeq(str, LAMBDA c : ~IsSpace(c))
        len == Len(cleaned)
        detectedSize == ISqrt(len)
    IN  IF detectedSize * detectedSize # len
        THEN [ok |-> FALSE, grid |-> <<>>, detectedSize |-> detectedSize]
        ELSE [ok |-> TRUE,
              grid |-> [i \in 1..detectedSize |-> [j \in 1..detectedSize |->
                           SingleCell(cleaned[(i - 1) * detectedSize + j])]],
              detectedSize |-> detectedSize]

\* the row parseGridStrings builds from a row string
RECURSIVE RowOfString(_)
RowOfString(s) ==
    IF s = <<>> THEN <<>>
    ELSE LET c == Head(s)
             rest == RowOfString(Tail(s))
         IN  IF c >= 49 /\ c <= 57 THEN <<c - 48>> \o rest
             ELSE IF c = 46 \/ c = 48 \/ c = 32 \/ c = 95 THEN <<0>> \o rest
             ELSE IF c >= 65 /\ c <= 90 THEN <<10 + (c - 65)>> \o rest
             ELSE IF c >= 97 /\ c <= 122 THEN <<10 + (c - 97)>> \o rest
             ELSE rest

\* JSONHandler::parseGridStrings
ParseGridStrings(arr) ==
    [ok |-> TRUE,
     grid |-> [r \in 1..Len(arr) |-> RowOfString(arr[r])],
     detectedSize |-> Len(arr)]

\* JSONHandler::loadFromJSON after the format's parser returned p
LoadFromJSON(p) ==
    IF ~p.ok \/ p.grid = <<>> THEN Throw("runtime_error")
    ELSE BoardFromGridDim(p.grid, FromSize(p.detectedSize))

\* loadFromJSON has returned r, or thrown, for the input
Loaded(o, input, r) ==
    /\ pc = "load"
    /\ op' = o
    /\ history' = <<[input |-> input]>>
    /\ board' = r.board
    /\ err' = r.what
    /\ pc' = IF r.ok THEN "loaded" ELSE "failed"
    /\ UNCHANGED <<board0, workBoard, engine, maxSol, bt, dlx, stack, retval,
                   solutions, result, calls, snap, bench>>

LoadPuzzle ==
    \E str \in Strings(MaxStrLen) :
       Loaded("puzzle", <<str>>, LoadFromJSON(ParseSingleString(str)))

LoadGrid ==
    \E n \in 1..MaxRows : \E arr \in [1..n -> Strings(MaxRowLen)] :
       Loaded("grid", arr, LoadFromJSON(ParseGridStrings(arr)))

ParseInit ==
    /\ engine = "bt"
    /\ board = NoBoard
    /\ board0 = NoBoard
    /\ workBoard = NoBoard
    /\ err = ""
    /\ pc = "load"
    /\ op = "none"
    /\ maxSol = 0
    /\ bt = BTNew
    /\ dlx = DLXNew
    /\ stack = <<>>
    /\ retval = FALSE
    /\ solutions = <<>>
    /\ result = NoResult
    /\ calls = 0
    /\ history = <<>>
    /\ snap = <<>>
    /\ bench = NoBench

ParseNext == LoadPuzzle \/ LoadGrid

SpecParse == ParseInit /\ [][ParseNext]_vars

\* the text of the load that has ended holds an unrecognised character
HasUnrecognised ==
    \E r \in 1..Len(history[1].input) :
       \E j \in 1..Len(history[1].input[r]) : ~Recognised(history[1].input[r][j])

\* C19: loading a puzzle given as a single string or as row strings fails with
\* an error when the text holds a character that is not a recognised puzzle
\* character; such a character is never read as an empty cell or dropped.
C19_UnrecognisedIsError ==
    pc \in {"loaded", "failed"} /\ HasUnrecognised => pc = "failed"

\* the single string "2*02" has been loaded as the board 2 0 / 0 2
C19_ReadAsEmpty ==
    /\ pc = "loaded"
    /\ op = "puzzle"
    /\ history[1].input = << <<50, 42, 48, 50>> >>
    /\ board.grid = << <<2, 0>>, <<0, 2>> >>

\* row strings have been loaded with a row that lost a character, as "20" and
\* "0*" loaded with the rows 2 0 and 0
C19_Dropped ==
    /\ pc = "loaded"
    /\ op = "grid"
    /\ \E r \in 1..Len(history[1].input) :
          Len(history[1].input[r]) > Len(board.grid[r])

\* the search state of the backtracking engine: the grid, every cell's
\* candidate set and the three used masks
SearchState(b, s) == <<b.grid, s.candidates, s.row_used, s.col_used, s.box_used>>

\* the innermost call of solveRecursive / solveAll is at the head of its loop
AtLoopHead == engine = "bt" /\ pc = "loop" /\ stack # <<>>

\* C20: in the backtracking search, whenever a call of solveRecursive or
\* solveAll is at the head of its loop, before the first trial value or after
\* a failed trial was restored, the grid, the candidate sets and row_used,
\* col_used and box_used are those the call had when it entered the loop: each
\* restore returns to the state before the trial value was placed, and the
\* next value is tried from the same state as the first one.
C20_RestoreReturnsPreTrial ==
    AtLoopHead =>
       LET f == stack[Len(stack)]
       IN  SearchState(workBoard, bt) = SearchState(f.entry.b, f.entry.s)

\* a trial value has failed and was restored, and the cell has a further
\* candidate value to try
C20_Witness ==
    /\ AtLoopHead
    /\ LET f == stack[Len(stack)]
       IN  /\ f.v > 0
           /\ bt.backtracks > 0
           /\ \E v \in bt.candidates[f.row + 1][f.col + 1] : v >= f.v

\* the values (less one, as the masks hold them) of the filled cells among ps
ValuesIn(b, ps) == {Cell(b, p[1], p[2]) - 1 : p \in {q \in ps : Cell(b, q[1], q[2]) # 0}}

\* the candidate sets and the masks of s mirror the board b
Mirrors(b, s) ==
    LET n == b.dim.size
        all == CellsOf(b)
    IN  /\ \A p \in all :
              s.candidates[p[1] + 1][p[2] + 1] =
                 IF Cell(b, p[1], p[2]) # 0 THEN {}
                 ELSE (0..(n - 1)) \ (s.row_used[p[1] + 1] \cup s.col_used[p[2] + 1]
                                         \cup s.box_used[BoxOf(b, p) + 1])
        /\ \A r \in 0..(n - 1) :
              s.row_used[r + 1] = ValuesIn(b, {p \in all : p[1] = r})
        /\ \A c \in 0..(n - 1) :
              s.col_used[c + 1] = ValuesIn(b, {p \in all : p[2] = c})
        /\ \A k \in 0..(n - 1) :
              s.box_used[k + 1] = ValuesIn(b, {p \in all : BoxOf(b, p) = k})

\* a call of the backtracking engine on a valid board is past initialize
InBTSearch == engine = "bt" /\ pc \in {"enter", "loop", "ret"} /\ Consistent(board0)

\* C21: throughout a backtracking solve of a valid board, after initialize,
\* after the placements of propagation and search and after every restore,
\* every empty cell's candidate set is 1..N less the values of row_used,
\* col_used and box_used of its row, column and box, every filled cell has no
\* candidates, and the three masks hold exactly the values present in each
\* row, column and box of the working board.
C21_CandidatesMirrorMasks == InBTSearch => Mirrors(workBoard, bt)

\* a restore has brought the search back to a loop head with empty cells left
C21_Witness ==
    /\ InBTSearch
    /\ pc = "loop"
    /\ bt.backtracks > 0
    /\ HasEmptyCell(workBoard)
    /\ \E r \in 1..bt.size : bt.row_used[r] # {}

\* the outermost search / searchAll of the DLX engine has just returned
DLXSearchReturned == engine = "dlx" /\ pc = "ret" /\ stack = <<>>

\* C22: when the outermost searchAll has returned, with enough found (true) or
\* with exhaustion (false), and when the outermost search has returned false,
\* every node's links and every column's size are those of the freshly built
\* matrix and the solution stack is empty: every cover of the search has been
\* undone.
C22_SearchRestoresMatrix ==
    (DLXSearchReturned /\ (op # "solve" \/ ~retval)) =>
       /\ dlx.nodes = BuildMatrix(DLXReset(DLXNew), board0).nodes
       /\ dlx.solution_rows = <<>>

\* searchAll has returned true with enough solutions after covering columns
C22_Witness ==
    /\ DLXSearchReturned
    /\ op = "findAll"
    /\ retval
    /\ Len(solutions) = 2
    /\ dlx.iterations > 2

\* searchAll has returned false after backtracking over the whole matrix
C22_WitnessExhausted ==
    /\ DLXSearchReturned
    /\ op = "findAll"
    /\ ~retval
    /\ Len(solutions) = 2
    /\ dlx.backtracks > 0

\* search has returned false after backtracking
C22_WitnessSearch ==
    /\ DLXSearchReturned
    /\ op = "solve"
    /\ ~retval
    /\ dlx.backtracks > 0

\* the matrix of the DLX engine is as buildMatrix left it
FreshMatrix == engine = "dlx" /\ pc = "enter" /\ stack = <<>> /\ dlx.iterations = 0

\* v collides with no other cell of the row, the column or the box of p
NoCollision(b, p, v) ==
    \A q \in CellsOf(b) : SameUnit(b, p, q) => Cell(b, q[1], q[2]) # v

\* the (r, c, v) that get a matrix row: the given value of a given cell, and
\* every value that collides with nothing for an empty cell
ExpectedRows(b) ==
    {t \in (0..(b.dim.size - 1)) \X (0..(b.dim.size - 1)) \X (1..b.dim.size) :
        IF Cell(b, t[1], t[2]) # 0 THEN t[3] = Cell(b, t[1], t[2])
        ELSE NoCollision(b, <<t[1], t[2]>>, t[3])}

\* the nodes of the matrix row with the id
RowNodes(id) == {k \in 1..Len(dlx.nodes) : dlx.nodes[k].row_id = id}

\* C23: the matrix built from a board has 4*N*N column headers; it holds one
\* row for the given value of each given cell and one row for each value of an
\* empty cell that is a valid placement, and no other row; the row of (r,c,v)
\* has four nodes, in the columns r*N+c, N*N+r*N+(v-1), 2*N*N+c*N+(v-1) and
\* 3*N*N+b*N+(v-1) with b the box of (r,c), and its id r*N*N+c*N+(v-1) decodes
\* back to (r,c,v).
C23_MatrixShape ==
    FreshMatrix =>
       LET n == board0.dim.size
           id(t) == t[1] * n * n + t[2] * n + (t[3] - 1)
           expected == ExpectedRows(board0)
       IN  /\ Len(dlx.column_headers) = 4 * n * n
           /\ Len(dlx.nodes) = 1 + 4 * n * n + 4 * Cardinality(expected)
           /\ {dlx.nodes[k].row_id : k \in 1..Len(dlx.nodes)} \ {-1} = {id(t) : t \in expected}
           /\ \A t \in expected :
                 /\ Cardinality(RowNodes(id(t))) = 4
                 /\ {dlx.nodes[k].col_id : k \in RowNodes(id(t))} =
                       { t[1] * n + t[2],
                         n * n + t[1] * n + (t[3] - 1),
                         2 * n * n + t[2] * n + (t[3] - 1),
                         3 * n * n + BoxOf(board0, <<t[1], t[2]>>) * n + (t[3] - 1) }
                 /\ \A k \in RowNodes(id(t)) :
                       dlx.nodes[k].column = dlx.column_headers[dlx.nodes[k].col_id + 1]
                 /\ DecodeRowId(dlx, id(t)) = t

\* the matrix of the 6x6 puzzle with 2x3 boxes, givens and empty cells, is built
C23_Witness ==
    /\ FreshMatrix
    /\ board0.dim = Dim(6, 2, 3)
    /\ HasEmptyCell(board0)
    /\ Len(dlx.nodes) > 1 + 4 * 36 + 4 * 33

\* the column headers in the header list; a covered column is the one its
\* left neighbour no longer points to.  The list keeps the order of the
\* column ids, which is the order of the node numbers.
HeaderCols ==
    {c \in Range(dlx.column_headers) : dlx.nodes[dlx.nodes[c].left].right = c}

\* the first column in list order among cs
FirstCol(cs) == CHOOSE c \in cs : \A x \in cs : c <= x

\* the columns of the smallest size in the header list
SmallestCols == {c \in HeaderCols : \A x \in HeaderCols : dlx.nodes[c].size <= dlx.nodes[x].size}

\* search / searchAll is entered with a non-empty header list
AtSelect == engine = "dlx" /\ pc = "enter" /\ HeaderCols # {}

\* C24 as stated: whenever the header list is non-empty, the selection returns
\* the first column of the smallest size in the list, so a column of size 0
\* is selected whenever one exists.
C24_SelectsSmallest ==
    AtSelect =>
       /\ SelectColumn(dlx) = FirstCol(SmallestCols)
       /\ (\E c \in HeaderCols : dlx.nodes[c].size = 0) =>
             dlx.nodes[SelectColumn(dlx)].size = 0

\* C24 amended: the selection returns the first column of size <= 1 in list
\* order when there is one, and otherwise the first column of the smallest
\* size; the column it returns is in the header list, and when it has size 0
\* the call returns false at once.
C24_SelectsFirstSmall ==
    /\ [](AtSelect =>
            LET small == {c \in HeaderCols : dlx.nodes[c].size <= 1}
            IN  SelectColumn(dlx) =
                   IF small # {} THEN FirstCol(small) ELSE FirstCol(SmallestCols))
    /\ [][AtSelect /\ dlx.nodes[SelectColumn(dlx)].size = 0
             => pc' = "ret" /\ retval' = FALSE /\ dlx'.nodes = dlx.nodes]_vars

\* a column of size 1 stands before a column of size 0 in the header list
C24_Witness ==
    /\ AtSelect
    /\ \E c \in HeaderCols : \E z \in HeaderCols :
          /\ c < z
          /\ dlx.nodes[c].size = 1
          /\ dlx.nodes[z].size = 0
          /\ \A x \in HeaderCols : x < c => dlx.nodes[x].size > 1

\* no column has a size below 2 and the first of the smallest is not the
\* first of the list
C24_WitnessScan ==
    /\ AtSelect
    /\ \A c \in HeaderCols : dlx.nodes[c].size >= 2
    /\ FirstCol(SmallestCols) # FirstCol(HeaderCols)

\* the header list is walked in four stretches of at most WalkStride nodes
WalkStride == 40

\* the nodes met going right from x until start is met or k nodes are passed,
\* and the node the walk stopped at
RECURSIVE WalkRight(_, _, _, _)
WalkRight(nodes, start, x, k) ==
    IF x = start \/ k = 0 THEN [seen |-> {}, at |-> x]
    ELSE LET w == WalkRight(nodes, start, nodes[x].right, k - 1)
         IN  [seen |-> {x} \cup w.seen, at |-> w.at]

\* the nodes met going right from x until start is met
RightFrom(nodes, start, x) ==
    LET a == WalkRight(nodes, start, x, WalkStride)
        b == WalkRight(nodes, start, a.at, WalkStride)
        c == WalkRight(nodes, start, b.at, WalkStride)
        d == WalkRight(nodes, start, c.at, WalkStride)
    IN  a.seen \cup b.seen \cup c.seen \cup d.seen

\* the nodes met going down from x until start is met
RECURSIVE DownFrom(_, _, _)
DownFrom(nodes, start, x) ==
    IF x = start THEN {} ELSE {x} \cup DownFrom(nodes, start, nodes[x].down)

\* the four links of the node x of nodes are answered by its neighbours
LinkedBack(nodes, x) ==
    /\ nodes[nodes[x].right].left = x
    /\ nodes[nodes[x].left].right = x
    /\ nodes[nodes[x].down].up = x
    /\ nodes[nodes[x].up].down = x

\* the DLX engine is in a search, between two cover / uncover calls
InDLXSearch == engine = "dlx" /\ pc \in {"enter", "loop", "ret"}

\* C25: at every point of a DLX search between cover / uncover calls, every
\* column header in the header list has a size equal to the number of nodes
\* in its vertical list, and the header, every column in the header list and
\* every node in the vertical list of such a column has its right, left, down
\* and up links answered by the neighbour they lead to.
C25_LinksConsistent ==
    InDLXSearch =>
       LET nodes == dlx.nodes
           cols == RightFrom(nodes, dlx.header, nodes[dlx.header].right)
       IN  /\ LinkedBack(nodes, dlx.header)
           /\ cols = HeaderCols
           /\ \A c \in cols :
                 LET rows == DownFrom(nodes, c, nodes[c].down)
                 IN  /\ nodes[c].size = Cardinality(rows)
                     /\ LinkedBack(nodes, c)
                     /\ \A x \in rows : LinkedBack(nodes, x) /\ nodes[x].column = c

\* in the middle of a search: columns are covered, others are left with rows
C25_Witness ==
    /\ InDLXSearch
    /\ Len(stack) >= 2
    /\ dlx.backtracks > 0
    /\ \E c \in HeaderCols : dlx.nodes[c].size >= 2

\* the empty cells among ps that have v among their candidates
OpenFor(w, ps, v) ==
    {p \in ps : Cell(w.b, p[1], p[2]) = 0 /\ v \in w.s.candidates[p[1] + 1][p[2] + 1]}

\* neither rule of propagate applies to w: no empty cell has fewer than two
\* candidates, and no row, column or box has an unused value that exactly
\* one of its empty cells can take
Fixpoint(w) ==
    LET n == w.b.dim.size
        all == CellsOf(w.b)
    IN  /\ \A p \in all :
              Cell(w.b, p[1], p[2]) = 0 => Cardinality(w.s.candidates[p[1] + 1][p[2] + 1]) >= 2
        /\ \A k \in 0..(n - 1) : \A v \in 0..(n - 1) :
              /\ v \notin w.s.row_used[k + 1]
                    => Cardinality(OpenFor(w, {p \in all : p[1] = k}, v)) # 1
              /\ v \notin w.s.col_used[k + 1]
                    => Cardinality(OpenFor(w, {p \in all : p[2] = k}, v)) # 1
              /\ v \notin w.s.box_used[k + 1]
                    => Cardinality(OpenFor(w, {p \in all : BoxOf(w.b, p) = k}, v)) # 1

\* the cells whose value differs between the boards a and b
Written(a, b) == {p \in CellsOf(a) : Cell(a, p[1], p[2]) # Cell(b, p[1], p[2])}

\* going from board a to board b only empty cells were written, and each got
\* a value 1..N that no other cell of its row, column or box holds in b
WritesSound(a, b) ==
    \A p \in Written(a, b) :
        /\ Cell(a, p[1], p[2]) = 0
        /\ Cell(b, p[1], p[2]) \in 1..a.dim.size
        /\ \A q \in CellsOf(b) :
              SameUnit(b, p, q) => Cell(b, q[1], q[2]) # Cell(b, p[1], p[2])

\* the propagate that solveRecursive / solveAll is about to run
PropagateAtEntry == Propagate([b |-> workBoard, s |-> [bt EXCEPT !.iterations = @ + 1]])

\* the propagate of solve / findAllSolutions has just returned success
AfterFirstPropagate == engine = "bt" /\ pc = "enter" /\ stack = <<>> /\ bt.iterations = 0

AtBTEntry == engine = "bt" /\ pc = "enter"

\* The same within the searches of Spec: the propagate of solve /
\* findAllSolutions against the caller's board, and the propagate at every
\* entry of solveRecursive / solveAll.
C26_FixpointInSearch ==
    /\ AfterFirstPropagate =>
          /\ Fixpoint([b |-> workBoard, s |-> bt])
          /\ WritesSound(board0, workBoard)
    /\ (AtBTEntry /\ PropagateAtEntry.ok) =>
          /\ Fixpoint(PropagateAtEntry.w)
          /\ WritesSound(workBoard, PropagateAtEntry.w.b)

(***************************************************************************)
(* propagate on its own.  The solver is initialized on a board, propagate  *)
(* runs, and as in the for loop of solveRecursive / solveAll a candidate   *)
(* of an empty cell is placed and propagate runs again.  Any empty cell    *)
(* and any of its candidates may be placed, the choices of selectBestCell  *)
(* among them.  board keeps the board that propagate was given.            *)
(***************************************************************************)
\* most trial placements in a row
MaxTrials == 1

\* 6x6 puzzles with 2x3 boxes sparse enough for a placement of one round to
\* enable a rule in the next
Sparse6 ==
    {MkBoard(<< <<0, 0, 3, 0, 0, 6>>, <<0, 0, 6, 1, 0, 0>>, <<0, 0, 0, 0, 0, 0>>,
                <<5, 0, 0, 0, 3, 0>>, <<3, 1, 0, 6, 0, 0>>, <<0, 4, 0, 0, 0, 0>> >>, Dim(6, 2, 3)),
     MkBoard(<< <<1, 0, 0, 4, 5, 0>>, <<4, 0, 0, 1, 0, 0>>, <<0, 0, 1, 0, 0, 0>>,
                <<0, 0, 4, 0, 3, 1>>, <<3, 0, 2, 0, 0, 0>>, <<0, 0, 0, 0, 1, 0>> >>, Dim(6, 2, 3)),
     MkBoard(<< <<1, 0, 0, 0, 0, 6>>, <<0, 0, 0, 1, 0, 3>>, <<0, 3, 0, 0, 0, 0>>,
                <<5, 6, 0, 2, 0, 0>>, <<0, 0, 0, 6, 4, 0>>, <<6, 4, 0, 0, 1, 0>> >>, Dim(6, 2, 3)),
     MkBoard(<< <<0, 0, 3, 0, 0, 0>>, <<4, 0, 0, 1, 0, 3>>, <<0, 0, 0, 0, 6, 0>>,
                <<0, 0, 0, 2, 0, 0>>, <<3, 0, 0, 0, 0, 5>>, <<6, 0, 0, 3, 0, 2>> >>, Dim(6, 2, 3)),
     MkBoard(<< <<0, 0, 3, 0, 0, 0>>, <<0, 5, 0, 0, 2, 0>>, <<2, 0, 0, 5, 0, 4>>,
                <<0, 0, 0, 0, 0, 1>>, <<0, 0, 0, 0, 0, 5>>, <<6, 0, 0, 0, 1, 2>> >>, Dim(6, 2, 3))}

PropBoards == Boards \cup Sparse6

\* after initialize(board) in solve / findAllSolutions
PropInit ==
    /\ engine = "bt"
    /\ board0 \in PropBoards
    /\ board = board0
    /\ workBoard = board0
    /\ bt = BTInitialize(BTReset(BTNew), board0)
    /\ pc = "initialized"
    /\ err = ""
    /\ op = "solve"
    /\ maxSol = 0
    /\ dlx = DLXNew
    /\ stack = <<>>
    /\ retval = FALSE
    /\ solutions = <<>>
    /\ result = NoResult
    /\ calls = 0
    /\ history = <<>>
    /\ snap = <<>>
    /\ bench = NoBench

\* a call of propagate(workBoard)
PropRun ==
    LET p == Propagate([b |-> workBoard, s |-> bt])
    IN  /\ pc \in {"initialized", "placed"}
        /\ board' = workBoard
        /\ workBoard' = p.w.b
        /\ bt' = p.w.s
        /\ retval' = p.ok
        /\ pc' = IF p.ok THEN "propagated" ELSE "contradiction"
        /\ UNCHANGED <<board0, err, engine, op, maxSol, dlx, stack, solutions, result,
                       calls, history, snap, bench>>

\* "board.set(row, col, value); updateCandidates(row, col, value);" of the
\* for loop, for a candidate of an empty cell
PropPlace ==
    /\ pc = "propagated"
    /\ calls < MaxTrials
    /\ \E p \in CellsOf(workBoard) :
          /\ Cell(workBoard, p[1], p[2]) = 0
          /\ \E v \in bt.candidates[p[1] + 1][p[2] + 1] :
                LET placed == Place([b |-> workBoard, s |-> bt], p[1], p[2], v + 1)
                IN  /\ workBoard' = placed.b
                    /\ bt' = placed.s
    /\ calls' = calls + 1
    /\ pc' = "placed"
    /\ UNCHANGED <<board, board0, err, engine, op, maxSol, dlx, stack, retval, solutions,
                   result, history, snap, bench>>

PropNext == PropRun \/ PropPlace

SpecPropagate == PropInit /\ [][PropNext]_vars

\* C26: whenever propagate returns success the state is a fixpoint of both
\* rules (no empty cell with fewer than two candidates, no unused value of a
\* row, column or box that is a candidate of exactly one empty cell), it has
\* written only cells that were empty, and every value it placed is held by
\* no other cell of the row, the column and the box.
C26_PropagateFixpoint ==
    (pc = "propagated" /\ retval) =>
        /\ Fixpoint([b |-> workBoard, s |-> bt])
        /\ WritesSound(board, workBoard)

\* propagate has succeeded after a trial placement on a board where one
\* round is not enough, has filled cells and has left empty cells behind
C26_Witness ==
    /\ pc = "propagated" /\ retval
    /\ calls = 1
    /\ board # workBoard
    /\ HasEmptyCell(workBoard)
    /\ ~Fixpoint(PropagateOneRound([b |-> board, s |-> BTInitialize(BTReset(BTNew), board)]).w)

\* within a search, propagate succeeds after a trial value having filled at
\* least two cells
C26_WitnessSearch ==
    /\ AtBTEntry
    /\ Len(stack) >= 1
    /\ PropagateAtEntry.ok
    /\ Cardinality(Written(workBoard, PropagateAtEntry.w.b)) >= 2
    /\ HasEmptyCell(PropagateAtEntry.w.b)

(***************************************************************************)
(* Termination.  A call runs on one thread, statement after statement, so  *)
(* a call in progress keeps taking its steps.  Every step of a call moves  *)
(* pc, but for the return of true through a level, which pops the level    *)
(* and leaves pc at "ret" (StepMoves below); the stack being finite, the   *)
(* weak fairness of Step is that of pc moving while a call is in progress, *)
(* and it is stated in that form, whose enabling condition is InCall.      *)
(***************************************************************************)
InCall == pc \in {"enter", "loop", "ret"}

\* the call in progress goes on to its next statement
Moving == InCall /\ pc' \in {"enter", "loop", "ret", "done"}

SpecLive == Init /\ [][Next]_vars /\ WF_pc(Moving)

\* a step of a call in progress moves pc or returns from a recursion level
StepMoves == InCall => (pc' # pc \/ Len(stack') < Len(stack))

EmptyCount(b) == Cardinality({p \in CellsOf(b) : Cell(b, p[1], p[2]) = 0})

\* the recursion levels that have their trial value on the board: at the
\* loop head the top level has none
LevelsPlaced == Len(stack) - (IF pc = "loop" THEN 1 ELSE 0)

\* one round of propagate at the entry of solveRecursive / solveAll
RoundAtEntry ==
    LET naked == PropagateNakedSingles([b |-> workBoard, s |-> [bt EXCEPT !.iterations = @ + 1]])
        hidden == PropagateHiddenSingles(naked.w)
    IN  [changed |-> naked.changed \/ hidden.changed, w |-> hidden.w]

\* a round of propagate that changes something fills an empty cell
RoundFills == RoundAtEntry.changed => EmptyCount(RoundAtEntry.w.b) < EmptyCount(workBoard)

\* every level of solveRecursive / solveAll has filled one more cell
LevelFills == EmptyCount(workBoard) + LevelsPlaced <= EmptyCount(board0)

\* every level of search / searchAll has taken a column off the header list
LevelCovers == Cardinality(HeaderCols) + Len(stack) <= Len(dlx.column_headers)

\* C27: on every board with cells 0..N, with both engines, solve,
\* findAllSolutions and hasUniqueSolution terminate: a call that has been
\* made returns; on the way a changing round of propagate fills an empty
\* cell, every level of the backtracking recursion has one more cell
\* filled, and every level of the DLX recursion has one more column off the
\* header list.
C27_Terminates ==
    /\ [](InCall => <>(pc = "done"))
    /\ [][StepMoves]_vars
    /\ []((InCall /\ engine = "bt") => LevelFills)
    /\ []((pc = "enter" /\ engine = "bt") => RoundFills)
    /\ []((InCall /\ engine = "dlx") => LevelCovers)

\* a solve has come back unsolvable after a search that backtracked
C27_Witness ==
    /\ pc = "done"
    /\ InRangeCells(board0)
    /\ result.kind = "solve"
    /\ ~result.solved
    /\ result.backtracks > 0

\* a findAllSolutions has come back from three levels of recursion
C27_WitnessDeep ==
    /\ InCall
    /\ op = "findAll"
    /\ Len(stack) >= 3

(***************************************************************************)
(* Board::isValidPlacement on its own: a board, a cell of it and a value   *)
(* are drawn, isValidPlacement(row, col, value) is asked, and then         *)
(* set(row, col, value) is called with the same arguments.  result keeps   *)
(* the arguments and the answer, workBoard the board after the set.        *)
(***************************************************************************)
PlacementBoards == Boards \cup Sparse6

\* the values asked: below 0, the cell values 0..N, above N
PlacementValues(b) == {-1, IntMax} \cup (0..(b.dim.size + 1))

PlacementInit ==
    /\ board \in PlacementBoards
    /\ board0 = board
    /\ workBoard = board
    /\ pc = "idle"
    /\ engine = "bt"
    /\ err = ""
    /\ op = "none"
    /\ maxSol = 0
    /\ bt = BTNew
    /\ dlx = DLXNew
    /\ stack = <<>>
    /\ retval = FALSE
    /\ solutions = <<>>
    /\ result = NoResult
    /\ calls = 0
    /\ history = <<>>
    /\ snap = <<>>
    /\ bench = NoBench

\* board.isValidPlacement(row, col, value)
PlacementAsk ==
    /\ pc = "idle"
    /\ \E p \in CellsOf(board) : \E v \in PlacementValues(board) :
          /\ result' = [kind |-> "placement", row |-> p[1], col |-> p[2], value |-> v]
          /\ retval' = IsValidPlacement(board, p[1], p[2], v)
    /\ pc' = "asked"
    /\ UNCHANGED <<board, board0, workBoard, err, engine, op, maxSol, bt, dlx, stack,
                   solutions, calls, history, snap, bench>>

\* board.set(row, col, value) with the arguments of the question
PlacementSet ==
    LET r == BoardSet(board, result.row, result.col, result.value)
    IN  /\ pc = "asked"
        /\ workBoard' = r.board
        /\ err' = r.what
        /\ pc' = "set"
        /\ UNCHANGED <<board, board0, retval, result, engine, op, maxSol, bt, dlx, stack,
                       solutions, calls, history, snap, bench>>

PlacementNext == PlacementAsk \/ PlacementSet

SpecPlacement == PlacementInit /\ [][PlacementNext]_vars

Asked == pc \in {"asked", "set"}

\* another cell of the row, the column or the box of the cell asked holds
\* the value asked
Collides ==
    \E q \in CellsOf(board) :
        /\ SameUnit(board, <<result.row, result.col>>, q)
        /\ Cell(board, q[1], q[2]) = result.value

\* C28: for a board, a cell (r,c) of it and a value v in 1..N,
\* isValidPlacement(r,c,v) is true iff no other cell of row r, column c or
\* the box of (r,c) holds v; for a valid board and an empty cell it is true
\* iff the board after set(r,c,v) is valid; it is true for v = 0 and false
\* for v outside [0,N].
C28_PlacementIffNoCollision ==
    /\ (Asked /\ result.value \in 1..board.dim.size) => (retval <=> ~Collides)
    /\ (Asked /\ result.value = 0) => retval
    /\ (Asked /\ result.value \notin 0..board.dim.size) => ~retval
    /\ (pc = "set" /\ result.value \in 1..board.dim.size /\ IsValid(board)
            /\ Cell(board, result.row, result.col) = 0)
          => /\ err = ""
             /\ Cell(workBoard, result.row, result.col) = result.value
             /\ retval <=> IsValid(workBoard)
             /\ retval <=> Consistent(workBoard)

\* on a valid 6x6 board with 2x3 boxes the value asked for an empty cell is
\* held in its box only, and the board after the set is not valid
C28_Witness ==
    /\ pc = "set"
    /\ board.dim.box_rows # board.dim.box_cols
    /\ IsValid(board)
    /\ Cell(board, result.row, result.col) = 0
    /\ result.value \in 1..board.dim.size
    /\ ~retval
    /\ ~IsValid(workBoard)
    /\ \A q \in CellsOf(board) :
          Cell(board, q[1], q[2]) = result.value => (q[1] # result.row /\ q[2] # result.col)

\* the cell asked holds the value asked itself and the answer is true
C28_WitnessOwnValue ==
    /\ Asked
    /\ result.value # 0
    /\ Cell(board, result.row, result.col) = result.value
    /\ retval

(***************************************************************************)
(* The box geometry of a constructed Board, in SpecDim.                    *)
(***************************************************************************)
\* the solver objects with the dimension of the board, as initialize and
\* buildMatrix set it
GeometrySolver ==
    [BTNew EXCEPT !.size = board.dim.size, !.box_rows = board.dim.box_rows,
                  !.box_cols = board.dim.box_cols]

GeometryMatrix ==
    [DLXNew EXCEPT !.size = board.dim.size, !.box_rows = board.dim.box_rows,
                   !.box_cols = board.dim.box_cols]

BoardConstructed == pc = "board" /\ err = ""

\* the box of cell p by Board::getBoxIndex
BoxIndexOf(p) == BoardBoxIndex(board, p[1], p[2])

\* C29: on a Board of a valid dimension (N, M, K), boxes square or not,
\* getBoxIndex(r,c) = (r/M)*(N/K) + (c/K) lies in [0,N) for every cell, every
\* box index is taken by exactly N cells, two cells have the same box index
\* iff they have the same getBoxStart (every box index has one box start and
\* there are as many box starts as box indices), and the Board, the
\* backtracking engine (getBoxIndex and the box walk of
\* propagateHiddenSingles) and the DLX engine (buildMatrix) put every cell
\* in the same box.
C29_BoxesPartition ==
    BoardConstructed =>
        LET n == board.dim.size
            all == CellsOf(board)
            starts == {GetBoxStart(board, p[1], p[2]) : p \in all}
        IN  /\ \A p \in all :
                  /\ BoxIndexOf(p) = (p[1] \div board.dim.box_rows) * (n \div board.dim.box_cols)
                                        + (p[2] \div board.dim.box_cols)
                  /\ BoxIndexOf(p) \in 0..(n - 1)
                  /\ BTBoxIndex(GeometrySolver, p[1], p[2]) = BoxIndexOf(p)
                  /\ BuildBox(GeometryMatrix, p[1], p[2]) = BoxIndexOf(p)
            /\ \A k \in 0..(n - 1) :
                  LET box == {p \in all : BoxIndexOf(p) = k}
                  IN  /\ Cardinality(box) = n
                      /\ Cardinality({GetBoxStart(board, p[1], p[2]) : p \in box}) = 1
                      /\ BoxCells(GeometrySolver, k) = box
            /\ Cardinality(starts) = n

\* a Board with boxes that are not square has been constructed
C29_Witness ==
    /\ BoardConstructed
    /\ board.dim.box_rows > 1
    /\ board.dim.box_cols > board.dim.box_rows
    /\ board.dim.size = board.dim.box_rows * board.dim.box_cols

\* a Board with boxes taller than wide has been constructed
C29_WitnessTall ==
    /\ BoardConstructed
    /\ board.dim.box_cols > 1
    /\ board.dim.box_rows > board.dim.box_cols

(***************************************************************************)
(* BenchmarkResult.result, in SpecBench.                                   *)
(***************************************************************************)
\* the SolveResult that the last timed solve of task t returned
LastSolve(t) ==
    LET n == Len(t.returned)
    IN  [solved |-> t.returned[n], iterations |-> t.iterations[n],
         backtracks |-> t.backtracks[n], time_ms |-> t.times[n]]

ReturnedWithRuns == bench.pc = "returned" /\ bench.config.runs >= 1

\* C30: a BenchmarkResult carries the last solve result: after run with
\* runs >= 1 the returned BenchmarkResult.result is the SolveResult of the
\* last timed solve (solved = true on a solvable puzzle), as it is for every
\* worker result of runMultithreaded.
C30_ResultIsLastSolve ==
    ReturnedWithRuns =>
       IF bench.call = "run"
       THEN bench.result.r.result = LastSolve(bench.task)
       ELSE \A w \in DOMAIN bench.workers :
               bench.result.worker_results[w].result = LastSolve(bench.workers[w])

\* the part that holds: every worker result of runMultithreaded carries the
\* SolveResult of the worker's last timed solve
C30_WorkerResultIsLastSolve ==
    (ReturnedWithRuns /\ bench.call = "runMultithreaded") =>
       \A w \in DOMAIN bench.workers :
          bench.result.worker_results[w].result = LastSolve(bench.workers[w])

\* what run returns instead: the SolveResult that BenchmarkResult was
\* constructed with
C30_RunResultIsDefault ==
    (bench.pc = "returned" /\ bench.call = "run") =>
       bench.result.r.result = NewBenchmarkResult.result

\* run has returned all_solved = true from two solved timed solves and its
\* result.solved is false
C30_Unset ==
    /\ bench.pc = "returned"
    /\ bench.call = "run"
    /\ bench.config.runs = 2
    /\ bench.task.returned = <<TRUE, TRUE>>
    /\ bench.result.r.all_solved
    /\ ~bench.result.r.result.solved

\* a worker result with the solved SolveResult of its last solve
C30_WorkerSet ==
    /\ bench.pc = "returned"
    /\ bench.call = "runMultithreaded"
    /\ bench.config.runs >= 1
    /\ bench.result.worker_results[1].result.solved

====
